---------------------------- MODULE Spec2Model ----------------------------
(***************************************************************************)
(* Reconciliation / validation core of immo-frog-backend:                  *)
(*   - ExtractionComparator   (src/src/utils/extractionCompare.js)         *)
(*   - applyIntelligentCorrections (src/src/routes/cleanExtraction.js)     *)
(*   - validateCalculations   (src/src/services/validatedClaudeService.js) *)
(*                                                                         *)
(* JavaScript values are tagged records.  Numbers are integers (the data   *)
(* are areas, euro amounts, years, counts); strings are sequences of       *)
(* one-character strings so that String.prototype.includes can be          *)
(* computed.  Enumerations of the code (severity, issue_type, status) are  *)
(* TLA+ strings.                                                           *)
(***************************************************************************)
EXTENDS Integers, Sequences, FiniteSets, TLC

VARIABLES
    \* ---- ExtractionComparator ----
    standardValue,   \* the value the caller holds for the standard side
    validatedValue,  \* the value the caller holds for the validated side
    options,         \* the options object the caller passes
    report,          \* the report object of compare(): differences, statistics
    calls,           \* history: one entry per compareField/compareNumericField call
    \* ---- applyIntelligentCorrections ----
    heap,            \* the objects: heap[a] maps the keys of object a to values
    data,            \* the extracted record handed to the applicator
    validation,      \* the validation report handed to the applicator
    dataSnapshot,    \* history: the structure of data before any call
    phase,           \* "ready", "applied" (one call), "reapplied" (two calls)
    corrected,       \* what the first call returned
    outcome,         \* "none", "returned" or "threw" (first call)
    corrected2,      \* what the call on the first call's output returned
    outcome2,        \* "none", "returned" or "threw" (second call)
    \* ---- validateCalculations ----
    auditData,       \* the record handed to the auditor
    propertyType,    \* 'SINGLE' or 'PORTFOLIO'
    currentYear,     \* new Date().getFullYear() at the time of the call
    auditResult,     \* what validateCalculations returned
    auditPhase,      \* "ready" or "done"
    \* ---- compare and generateSummary ----
    standardInput,  \* the standard extraction handed to compare()
    validatedInput, \* the validated extraction handed to compare()
    reportType,      \* the propertyType handed to compare()
    comparison,      \* what compare() returned
    summary,         \* what generateSummary() returned
    reportPhase,     \* "ready", "compared" or "summarised"
    \* ---- extractPropertyData and the routes of cleanExtraction.js ----
    enableValidation, \* the argument enableValidation
    classification,  \* classificationType
    extracted,       \* extractedData
    verification,    \* verificationResult
    correctionToolUse, \* the tool_use block of the correction response
    result,          \* what extractPropertyData returned
    response,        \* what the route sent
    apiCalls,        \* history: the passes sent to the model service
    pipePhase,       \* the await the request is at, or how it ended
    \* ---- CustomLokiTransport ----
    batchSize,       \* this.batchSize
    batch,           \* this.batch: the entries waiting, oldest first
    flushTimer,      \* whether the interval timer is running
    requests,        \* history: the push requests made, with their outcome
    logged           \* history: the number of log() calls made

compareVars == <<standardValue, validatedValue, options, report, calls>>

correctVars == <<heap, data, validation, dataSnapshot, phase, corrected,
                 outcome, corrected2, outcome2>>

auditVars == <<auditData, propertyType, currentYear, auditResult, auditPhase>>

reportVars == <<standardInput, validatedInput, reportType, comparison, summary,
                reportPhase>>

pipeVars == <<enableValidation, classification, extracted, verification,
              correctionToolUse, result, response, apiCalls, pipePhase>>

lokiVars == <<batchSize, batch, flushTimer, requests, logged>>

vars == <<compareVars, correctVars, auditVars, reportVars, pipeVars, lokiVars>>

-----------------------------------------------------------------------------
(* JavaScript values *)

Undefined == [t |-> "undefined"]
Null      == [t |-> "null"]
NaN       == [t |-> "NaN"]
Num(n)    == [t |-> "number", n |-> n]
Str(s)    == [t |-> "string", s |-> s]
Obj(f)    == [t |-> "object", o |-> f]

IsNum(v) == v.t = "number"
IsStr(v) == v.t = "string"
IsObj(v) == v.t = "object"

\* ToBoolean: undefined, null, NaN, 0 and "" are falsy
Truthy(v) ==
    CASE v.t = "undefined" -> FALSE
      [] v.t = "null"      -> FALSE
      [] v.t = "NaN"       -> FALSE
      [] v.t = "number"    -> v.n # 0
      [] v.t = "string"    -> v.s # <<>>
      [] OTHER             -> TRUE

Abs(x) == IF x < 0 THEN -x ELSE x
Max(a, b) == IF a >= b THEN a ELSE b

Digits == <<"0", "1", "2", "3", "4", "5", "6", "7", "8", "9">>
IsDigit(c) == \E i \in 1..10 : Digits[i] = c
DigitValue(c) == (CHOOSE i \in 1..10 : Digits[i] = c) - 1

RECURSIVE ParseDigits(_, _)
ParseDigits(s, acc) ==
    IF s = <<>> THEN acc ELSE ParseDigits(Tail(s), 10 * acc + DigitValue(Head(s)))

\* Number(v): null -> 0, undefined -> NaN, "" -> 0, a digit string -> its
\* value, any other string -> NaN
ToNumber(v) ==
    CASE v.t = "number"    -> v
      [] v.t = "null"      -> Num(0)
      [] v.t = "string"    ->
            IF \A i \in 1..Len(v.s) : IsDigit(v.s[i])
            THEN Num(ParseDigits(v.s, 0))
            ELSE NaN
      [] OTHER             -> NaN

\* JSON.stringify(v) for a primitive: the text as a sequence of tokens;
\* undefined has no JSON text and stringify returns undefined
JSONStringify(v) ==
    CASE v.t = "undefined" -> Undefined
      [] v.t = "null"      -> Str(<<"null">>)
      [] v.t = "NaN"       -> Str(<<"null">>)
      [] v.t = "number"    -> Str(<<ToString(v.n)>>)
      [] v.t = "string"    -> Str(<<"\"">> \o v.s \o <<"\"">>)
      [] OTHER             -> Undefined

\* String.prototype.includes
Includes(s, sub) ==
    \E i \in 0..(Len(s) - Len(sub)) : SubSeq(s, i + 1, i + Len(sub)) = sub

-----------------------------------------------------------------------------
(* ExtractionComparator *)

Absent == "<absent>"

\* const { severity = 'low' } = options
FieldSeverityOption(opts) ==
    IF opts.severity = Absent THEN "low" ELSE opts.severity

\* const { tolerance = 0, severity = 'medium' } = options
NumericSeverityOption(opts) ==
    IF opts.severity = Absent THEN "medium" ELSE opts.severity

ToleranceOption(opts) ==
    IF opts.tolerance = Undefined THEN 0 ELSE opts.tolerance.n

categorizeIssueUnflagged(std, val) ==
    IF std # Null /\ val = Null
    THEN [type |-> "removed_fabrication", isFabrication |-> FALSE]
    ELSE IF std = Null /\ val # Null
    THEN [type |-> "added_missing_data", isFabrication |-> FALSE]
    ELSE IF IsStr(std) /\ IsStr(val)
            /\ (Includes(std.s, val.s) \/ Includes(val.s, std.s))
    THEN [type |-> "string_modification", isFabrication |-> FALSE]
    ELSE [type |-> "value_change", isFabrication |-> FALSE]

categorizeIssue(std, val) ==
    IF std # Null /\ val = Null
    THEN [type |-> "removed_fabrication", isFabrication |-> TRUE]
    ELSE IF std = Null /\ val # Null
    THEN [type |-> "added_missing_data", isFabrication |-> FALSE]
    ELSE IF IsStr(std) /\ IsStr(val)
            /\ (Includes(std.s, val.s) \/ Includes(val.s, std.s))
    THEN [type |-> "string_modification", isFabrication |-> FALSE]
    ELSE [type |-> "value_change", isFabrication |-> FALSE]

\* the caller's severity for every issue, fabrication or not
SeverityCallerOnly(issue, severity) == severity

\* severity: issue.isFabrication ? 'critical' : severity
IssueSeverity(issue, severity) ==
    IF issue.isFabrication THEN "critical" ELSE severity

\* the statistics counters
Compared(st)  == [st EXCEPT !.fields_compared = @ + 1]
Identical(st) == [st EXCEPT !.fields_identical = @ + 1]
Different(st) == [st EXCEPT !.fields_different = @ + 1]

\* the type_mismatch Difference pushed without counting the field as different
TypeMismatchUncounted(rep, fieldPath, std, val) ==
    [rep EXCEPT !.differences = Append(@,
        [field |-> fieldPath, severity |-> "medium",
         standard_value |-> std, validated_value |-> val,
         issue_type |-> "type_mismatch"])]

\* the branch of compareNumericField for a value that does not coerce to a
\* number
TypeMismatch(rep, fieldPath, std, val) ==
    [rep EXCEPT
        !.statistics = Different(@),
        !.differences = Append(@,
            [field |-> fieldPath, severity |-> "medium",
             standard_value |-> std, validated_value |-> val,
             issue_type |-> "type_mismatch"])]

compareField(rep, fieldPath, std, val, opts) ==
    LET severity == FieldSeverityOption(opts)
        r1 == [rep EXCEPT !.statistics = Compared(@)]
    IN  IF JSONStringify(std) = JSONStringify(val)
        THEN [r1 EXCEPT !.statistics = Identical(@)]
        ELSE LET issue == categorizeIssue(std, val)
             IN  [r1 EXCEPT
                    !.statistics = Different(@),
                    !.differences = Append(@,
                        [field |-> fieldPath,
                         severity |-> IssueSeverity(issue, severity),
                         standard_value |-> std, validated_value |-> val,
                         issue_type |-> issue.type])]

\* the difference without Math.abs
SignedDiff(s, v) == s - v

\* Math.abs(std - val)
AbsDiff(s, v) == Abs(s - v)

\* diff < tolerance
StrictlyWithin(diff, tolerance) == diff < tolerance

\* diff <= tolerance
WithinTolerance(diff, tolerance) == diff <= tolerance

\* ((diff / std) * 100).toFixed(2) + '%', as hundredths of a percent
\* rounded to the nearest; 0 when std is 0
PercentDifference(diff, s) ==
    LET h == IF s = 0 THEN 0
             ELSE IF s > 0 THEN (2 * diff * 10000 + s) \div (2 * s)
             ELSE -((2 * diff * 10000 + (-s)) \div (2 * (-s)))
    IN  [hundredths |-> h, suffix |-> "%"]

LargeDiscrepancy == 1000

compareNumericField(rep, fieldPath, std, val, opts) ==
    LET tolerance == ToleranceOption(opts)
        severity  == NumericSeverityOption(opts)
        r1 == [rep EXCEPT !.statistics = Compared(@)]
    IN  IF std = Null /\ val = Null
        THEN [r1 EXCEPT !.statistics = Identical(@)]
        ELSE IF std = Null \/ val = Null
        THEN LET issue == categorizeIssue(std, val)
             IN  [r1 EXCEPT
                    !.statistics = Different(@),
                    !.differences = Append(@,
                        [field |-> fieldPath,
                         severity |-> IssueSeverity(issue, severity),
                         standard_value |-> std, validated_value |-> val,
                         issue_type |-> issue.type])]
        ELSE LET s == ToNumber(std)
                 v == ToNumber(val)
             IN  IF s = NaN \/ v = NaN
                 THEN TypeMismatch(r1, fieldPath, std, val)
                 ELSE LET diff == AbsDiff(s.n, v.n)
                      IN  IF WithinTolerance(diff, tolerance)
                          THEN [r1 EXCEPT !.statistics = Identical(@)]
                          ELSE [r1 EXCEPT
                                  !.statistics = Different(@),
                                  !.differences = Append(@,
                                    [field |-> fieldPath,
                                     severity |-> severity,
                                     standard_value |-> std,
                                     validated_value |-> val,
                                     absolute_difference |-> diff,
                                     percent_difference |->
                                        PercentDifference(diff, s.n),
                                     issue_type |-> "numeric_discrepancy",
                                     notes |-> IF diff > LargeDiscrepancy
                                               THEN "Large discrepancy detected"
                                               ELSE "Small discrepancy"])]

\* the report object compare() builds before any field is compared
NewReport ==
    [differences |-> <<>>,
     statistics |-> [fields_compared |-> 0, fields_different |-> 0,
                     fields_identical |-> 0]]

-----------------------------------------------------------------------------
(* Objects.  An object lives in the heap and a value of type object is a   *)
(* reference Ref(a) to it, so two values may denote the same object.  The  *)
(* heap is a sequence: address a is the a-th object allocated.             *)

Ref(a) == [t |-> "object", a |-> a]

EmptyFields == [k \in {} |-> Undefined]

SetField(f, k, v) == [x \in (DOMAIN f) \cup {k} |-> IF x = k THEN v ELSE f[x]]

\* v[k] for a value v that is neither null nor undefined: an own property of
\* an object, undefined on a number or a string (no key of the model is a
\* property of Number.prototype or String.prototype)
GetProp(h, v, k) ==
    IF IsObj(v) /\ k \in DOMAIN h[v.a] THEN h[v.a][k] ELSE Undefined

\* v[k] = x in non-strict code (cleanExtraction.js has no 'use strict'): sets
\* the property of an object and is silently ignored on a number or string
PutProp(h, v, k, x) ==
    IF IsObj(v) THEN [h EXCEPT ![v.a] = SetField(@, k, x)] ELSE h

Cyclic == [t |-> "cyclic"]

\* The structure of v: the tree JSON.stringify walks.  Keys holding undefined
\* are left out, as in JSON text.  A walk deeper than the number of objects
\* of the heap has met an object twice: the structure is circular.
RECURSIVE Tree(_, _, _)
Tree(h, v, fuel) ==
    IF ~IsObj(v) THEN v
    ELSE IF fuel = 0 THEN Cyclic
    ELSE Obj([k \in {x \in DOMAIN h[v.a] : h[v.a][x] # Undefined} |->
                Tree(h, h[v.a][k], fuel - 1)])

Structure(h, v) == Tree(h, v, Len(h) + 1)

RECURSIVE IsCircular(_)
IsCircular(tree) ==
    \/ tree = Cyclic
    \/ /\ IsObj(tree)
       /\ \E k \in DOMAIN tree.o : IsCircular(tree.o[k])

\* JSON.parse of the text of a tree: every object of the tree is a new object
RECURSIVE Parse(_, _), ParseFields(_, _, _, _)
Parse(h, tree) ==
    IF ~IsObj(tree) THEN [h |-> h, v |-> tree]
    ELSE LET a == Len(h) + 1
         IN  [h |-> ParseFields(Append(h, EmptyFields), a, tree.o, DOMAIN tree.o),
              v |-> Ref(a)]

ParseFields(h, a, fields, keys) ==
    IF keys = {} THEN h
    ELSE LET k == CHOOSE x \in keys : TRUE
             r == Parse(h, fields[k])
         IN  ParseFields([r.h EXCEPT ![a] = SetField(@, k, r.v)],
                         a, fields, keys \ {k})

\* no copy at all: the result is the argument itself
SameObject(h, v) == [h |-> h, v |-> v, threw |-> FALSE]

\* JSON.parse(JSON.stringify(v)); JSON.stringify throws a TypeError on a
\* circular structure
JSONClone(h, v) ==
    LET tree == Structure(h, v)
    IN  IF IsCircular(tree)
        THEN [h |-> h, v |-> Undefined, threw |-> TRUE]
        ELSE LET r == Parse(h, tree)
             IN  [h |-> r.h, v |-> r.v, threw |-> FALSE]

-----------------------------------------------------------------------------
(* applyFieldCorrection and applyIntelligentCorrections *)

\* fieldPath.split('.'): a dotted string and the non-empty list of its
\* dot-free segments determine each other, and a field_path string is held
\* as that list
Split(fieldPath) == fieldPath.s

\* The loop over parts[0 .. length-2] and the final assignment.  current is
\* the value the loop has reached; reading or writing a property of
\* undefined or null throws a TypeError.
RECURSIVE Descend(_, _, _, _, _)
Descend(h, current, parts, i, value) ==
    IF current = Undefined \/ current = Null
    THEN [h |-> h, threw |-> TRUE]
    ELSE IF i = Len(parts)
    THEN [h |-> PutProp(h, current, parts[i], value), threw |-> FALSE]
    ELSE LET h1 == IF ~Truthy(GetProp(h, current, parts[i]))
                   THEN PutProp(Append(h, EmptyFields), current, parts[i],
                                Ref(Len(h) + 1))
                   ELSE h
         IN  Descend(h1, GetProp(h1, current, parts[i]), parts, i + 1, value)

\* split is a method of strings: on undefined the call throws a TypeError
applyFieldCorrection(h, obj, fieldPath, value) ==
    IF ~IsStr(fieldPath) THEN [h |-> h, threw |-> TRUE]
    ELSE Descend(h, obj, Split(fieldPath), 1, value)

\* the body of verifications.forEach for one verification
ApplyVerification(h, obj, v) ==
    IF v.status = "INCORRECT" /\ v.correct_value # Undefined
    THEN applyFieldCorrection(h, obj, v.field_path, v.correct_value)
    ELSE IF v.status = "FABRICATED"
    THEN applyFieldCorrection(h, obj, v.field_path, Null)
    ELSE IF v.status = "MISSING" /\ v.correct_value # Undefined
    THEN applyFieldCorrection(h, obj, v.field_path, v.correct_value)
    ELSE [h |-> h, threw |-> FALSE]

\* verifications.forEach: in order, abandoned at the first exception
RECURSIVE ApplyVerifications(_, _, _, _)
ApplyVerifications(h, obj, vs, i) ==
    IF i > Len(vs) THEN [h |-> h, threw |-> FALSE]
    ELSE LET r == ApplyVerification(h, obj, vs[i])
         IN  IF r.threw THEN r ELSE ApplyVerifications(r.h, obj, vs, i + 1)

\* the markers looked for in the critical-issue notes; a note is a string
\* given word by word
LandAreaMarker    == <<"Land", "area">>
NotStatedMarker   == <<"not", "stated">>
ParkingAreaMarker == <<"Parking", "area", "in", "sqm">>
FabricatedMarker  == <<"fabricated">>

\* the body of criticalIssues.forEach for one note; obj is the clone, an
\* object.  includes is a method of strings: on a number, null or a mapping
\* the call throws a TypeError.
ApplyCriticalIssue(h, obj, issue) ==
    IF ~IsStr(issue) THEN [h |-> h, threw |-> TRUE]
    ELSE
    LET pm == GetProp(h, obj, "property_metrics")
        h1 == IF /\ Includes(issue.s, LandAreaMarker)
                 /\ Includes(issue.s, NotStatedMarker)
                 /\ Truthy(pm)
              THEN PutProp(h, pm, "land_area_sqm", Null)
              ELSE h
        pm1 == GetProp(h1, obj, "property_metrics")
        bbu == IF pm1 = Undefined \/ pm1 = Null THEN Undefined
               ELSE GetProp(h1, pm1, "breakdown_by_use")
    IN  [h |-> IF /\ Includes(issue.s, ParkingAreaMarker)
                  /\ Includes(issue.s, FabricatedMarker)
                  /\ Truthy(bbu)
               THEN PutProp(h1, bbu, "parking_sqm", Null)
               ELSE h1,
         threw |-> FALSE]

\* criticalIssues.forEach: in order, abandoned at the first exception
RECURSIVE ApplyCriticalIssues(_, _, _, _)
ApplyCriticalIssues(h, obj, issues, i) ==
    IF i > Len(issues) THEN [h |-> h, threw |-> FALSE]
    ELSE LET r == ApplyCriticalIssue(h, obj, issues[i])
         IN  IF r.threw THEN r ELSE ApplyCriticalIssues(r.h, obj, issues, i + 1)

NotesBeforeFindings(h, d, val) ==
    LET c == JSONClone(h, d)
    IN  IF c.threw THEN [h |-> h, v |-> Undefined, threw |-> TRUE]
        ELSE IF ~val.defined \/ ~val.has_self_verification
        THEN [h |-> c.h, v |-> c.v, threw |-> FALSE]
        ELSE LET q == ApplyCriticalIssues(c.h, c.v, val.critical_issues, 1)
             IN  IF q.threw THEN [h |-> q.h, v |-> Undefined, threw |-> TRUE]
                 ELSE LET r == ApplyVerifications(q.h, c.v,
                                                  val.field_verifications, 1)
                      IN  IF r.threw
                          THEN [h |-> r.h, v |-> Undefined, threw |-> TRUE]
                          ELSE [h |-> r.h, v |-> c.v, threw |-> FALSE]

\* The loop over validation.calculation_validation.issues only logs: it
\* changes neither the record nor the report and has no part here.
applyIntelligentCorrections(h, d, val) ==
    LET c == JSONClone(h, d)
    IN  IF c.threw THEN [h |-> h, v |-> Undefined, threw |-> TRUE]
        ELSE IF ~val.defined \/ ~val.has_self_verification
        THEN [h |-> c.h, v |-> c.v, threw |-> FALSE]
        ELSE LET r == ApplyVerifications(c.h, c.v, val.field_verifications, 1)
             IN  IF r.threw THEN [h |-> r.h, v |-> Undefined, threw |-> TRUE]
                 ELSE LET q == ApplyCriticalIssues(r.h, c.v,
                                                   val.critical_issues, 1)
                      IN  IF q.threw
                          THEN [h |-> q.h, v |-> Undefined, threw |-> TRUE]
                          ELSE [h |-> q.h, v |-> c.v, threw |-> FALSE]

-----------------------------------------------------------------------------
(* validateCalculations.  The record is read only, so it is held as a tree: *)
(* Obj(f) for a mapping, Arr(s) for an array.                               *)

Arr(s) == [t |-> "array", items |-> s]

\* v?.k, and v.k for a v that is an object
Field(v, k) ==
    IF IsObj(v) /\ k \in DOMAIN v.o THEN v.o[k] ELSE Undefined

\* a < b on values: both are coerced to numbers and a comparison with NaN
\* is false
Less(a, b) ==
    LET x == ToNumber(a)
        y == ToNumber(b)
    IN  x # NaN /\ y # NaN /\ x.n < y.n

\* Object.values(breakdown).reduce((acc, val) => acc + (val || 0), 0) for a
\* breakdown whose values are numbers or null
RECURSIVE SumOver(_, _)
SumOver(f, keys) ==
    IF keys = {} THEN 0
    ELSE LET k == CHOOSE x \in keys : TRUE
         IN  (IF Truthy(f[k]) THEN f[k].n ELSE 0) + SumOver(f, keys \ {k})

BreakdownSum(breakdown) == SumOver(breakdown.o, DOMAIN breakdown.o)

AreaToleranceFloor   == 10
IncomeToleranceFloor == 1000
TolerancePercent     == 2
MinYearBuilt         == 1800
YearsAhead           == 10

\* Math.abs(sum - total) > Math.max(floor, total * 0.02), over the integers:
\* d > max(f, t * 2 / 100) iff d > f and 100 * d > 2 * t
BeyondTolerance(sum, total, floor) ==
    /\ Abs(sum - total) > floor
    /\ 100 * Abs(sum - total) > TolerancePercent * total

\* difference: sum - total
IssueDifference(sum, total) == sum - total

\* the check and the issue of one breakdown against its stated total
BreakdownAudit(breakdown, total, floor, checkType, field, text) ==
    IF Truthy(breakdown) /\ Truthy(total)
    THEN LET sum == BreakdownSum(breakdown)
         IN  [checks |-> << [type |-> checkType,
                             breakdown_sum |-> sum,
                             stated_total |-> total.n,
                             difference |-> Abs(sum - total.n),
                             within_tolerance |->
                                ~BeyondTolerance(sum, total.n, floor)] >>,
              issues |-> IF BeyondTolerance(sum, total.n, floor)
                         THEN << [severity |-> "high", field |-> field,
                                  issue |-> [text |-> text, total |-> total.n,
                                             sum |-> sum],
                                  difference |->
                                     IssueDifference(sum, total.n)] >>
                         ELSE <<>>]
    ELSE [checks |-> <<>>, issues |-> <<>>]

\* built < 1800 || built > currentYear + 10
YearOutOfRange(built, year) ==
    Less(built, Num(MinYearBuilt)) \/ Less(Num(year + YearsAhead), built)

\* occupancy < 0 || occupancy >= 100
OccupancyNotBelowHundred(occupancy) ==
    Less(occupancy, Num(0)) \/ ~Less(occupancy, Num(100))

\* occupancy < 0 || occupancy > 100
OccupancyOutOfRange(occupancy) ==
    Less(occupancy, Num(0)) \/ Less(Num(100), occupancy)

\* completed <= built
CompletedNotAfterBuilt(completed, built) == ~Less(built, completed)

\* completed < built
CompletedBeforeBuilt(completed, built) == Less(completed, built)

YearIssues(details, year) ==
    LET built == Field(details, "original_year_built")
        completed == Field(details, "completion_year")
    IN  IF Truthy(built) /\ Truthy(completed)
        THEN (IF CompletedBeforeBuilt(completed, built)
              THEN << [severity |-> "high", field |-> "project_details",
                       issue |-> [text |-> "Completion year is before construction year",
                                  completed |-> completed, built |-> built],
                       note |-> "This is logically impossible"] >>
              ELSE <<>>)
             \o
             (IF YearOutOfRange(built, year)
              THEN << [severity |-> "medium",
                       field |-> "project_details.original_year_built",
                       issue |-> [text |-> "Year built is outside reasonable range",
                                  built |-> built]] >>
              ELSE <<>>)
        ELSE <<>>

OccupancyIssues(usage) ==
    LET occupancy == Field(usage, "overall_occupancy_percent")
    IN  IF occupancy # Undefined /\ OccupancyOutOfRange(occupancy)
        THEN << [severity |-> "high",
                 field |-> "usage_details.overall_occupancy_percent",
                 issue |-> [text |-> "Occupancy rate is outside valid range (0-100%)",
                            occupancy |-> occupancy]] >>
        ELSE <<>>

\* the body of data.forEach for the entry at index idx (from 0)
PortfolioEntryIssues(property, idx, year) ==
    LET occupancy == Field(property, "occupancy_rate_percent")
        built == Field(property, "year_built")
    IN  (IF occupancy # Null /\ occupancy # Undefined
            /\ OccupancyOutOfRange(occupancy)
         THEN << [severity |-> "high", property_index |-> idx,
                  property_name |-> Field(property, "name_id"),
                  field |-> "occupancy_rate_percent",
                  issue |-> [text |-> "Occupancy outside valid range",
                             occupancy |-> occupancy]] >>
         ELSE <<>>)
        \o
        (IF built # Null /\ YearOutOfRange(built, year)
         THEN << [severity |-> "medium", property_index |-> idx,
                  property_name |-> Field(property, "name_id"),
                  field |-> "year_built",
                  issue |-> [text |-> "Year outside reasonable range",
                             built |-> built]] >>
         ELSE <<>>)

RECURSIVE PortfolioIssues(_, _, _)
PortfolioIssues(items, i, year) ==
    IF i > Len(items) THEN <<>>
    ELSE PortfolioEntryIssues(items[i], i - 1, year)
            \o PortfolioIssues(items, i + 1, year)

\* issues.filter(i => i.severity === sev).length
CountSeverity(issues, sev) ==
    Cardinality({i \in DOMAIN issues : issues[i].severity = sev})

\* a result that is valid only when there is no issue of any severity
AuditResultNoIssues(checks, issues) ==
    [is_valid |-> Len(issues) = 0,
     checks_performed |-> checks,
     issues |-> issues,
     summary |-> [total_checks |-> Len(checks),
                  high_severity_issues |-> CountSeverity(issues, "high"),
                  medium_severity_issues |-> CountSeverity(issues, "medium")]]

AuditResult(checks, issues) ==
    [is_valid |-> CountSeverity(issues, "high") = 0,
     checks_performed |-> checks,
     issues |-> issues,
     summary |-> [total_checks |-> Len(checks),
                  high_severity_issues |-> CountSeverity(issues, "high"),
                  medium_severity_issues |-> CountSeverity(issues, "medium")]]

validateCalculations(d, type, year) ==
    IF type = "SINGLE"
    THEN LET metrics == Field(d, "property_metrics")
             financial == Field(d, "financial")
             area == BreakdownAudit(Field(metrics, "breakdown_by_use"),
                                    Field(metrics, "total_usable_area_sqm"),
                                    AreaToleranceFloor, "area_breakdown_sum",
                                    "property_metrics.total_usable_area_sqm",
                                    "Total area doesn't match sum of breakdown")
             income == BreakdownAudit(Field(financial, "breakdown_by_use"),
                                      Field(financial, "total_rental_income_annual_eur"),
                                      IncomeToleranceFloor, "income_breakdown_sum",
                                      "financial.total_rental_income_annual_eur",
                                      "Total income doesn't match sum of breakdown")
         IN  AuditResult(area.checks \o income.checks,
                         area.issues \o income.issues
                            \o YearIssues(Field(d, "project_details"), year)
                            \o OccupancyIssues(Field(d, "usage_details")))
    ELSE IF d.t = "array"
    THEN AuditResult(<<>>, PortfolioIssues(d.items, 1, year))
    ELSE AuditResult(<<>>, <<>>)

-----------------------------------------------------------------------------
(* compare, compareSingleProperty, comparePortfolio, compareSection and     *)
(* getRecommendation.  The two results are read only and held as trees.     *)

\* a || b
OrElse(a, b) == IF Truthy(a) THEN a ELSE b

\* no options argument: options = {}
NoOptions == [tolerance |-> Undefined, severity |-> Absent]

\* { tolerance: 0.01 } and { tolerance: 0.01, severity }: the numbers of a
\* record are integers, and two integers differ by at most 0.01 exactly when
\* they differ by at most 0
HundredthTolerance(sev) == [tolerance |-> Num(0), severity |-> sev]

\* the keys of a set in a fixed order
RECURSIVE KeySeq(_)
KeySeq(S) ==
    IF S = {} THEN <<>>
    ELSE LET k == CHOOSE x \in S : TRUE IN <<k>> \o KeySeq(S \ {k})

\* new Set([...Object.keys(standardBreakdown), ...Object.keys(validatedBreakdown)])
UsageTypes(standardBreakdown, validatedBreakdown) ==
    KeySeq(DOMAIN standardBreakdown.o)
        \o KeySeq(DOMAIN validatedBreakdown.o \ DOMAIN standardBreakdown.o)

\* usageTypes.forEach(type => this.compareNumericField(...))
RECURSIVE CompareBreakdown(_, _, _, _, _, _, _)
CompareBreakdown(rep, prefix, sb, vb, types, i, opts) ==
    IF i > Len(types) THEN rep
    ELSE CompareBreakdown(
            compareNumericField(rep, prefix \o "." \o types[i],
                                Field(sb, types[i]), Field(vb, types[i]), opts),
            prefix, sb, vb, types, i + 1, opts)

\* fields.forEach(field => this.compareField(...))
RECURSIVE CompareSectionFields(_, _, _, _, _, _)
CompareSectionFields(rep, sectionName, standard, validated, fields, i) ==
    IF i > Len(fields) THEN rep
    ELSE CompareSectionFields(
            compareField(rep, sectionName \o "." \o fields[i],
                         Field(standard, fields[i]), Field(validated, fields[i]),
                         NoOptions),
            sectionName, standard, validated, fields, i + 1)

compareSection(rep, sectionName, standard, validated, fields) ==
    IF ~Truthy(standard) /\ ~Truthy(validated) THEN rep
    ELSE IF ~Truthy(standard) \/ ~Truthy(validated)
    THEN [rep EXCEPT !.differences = Append(@,
            [field |-> sectionName, severity |-> "high",
             issue |-> "Section missing in one extraction",
             standard_exists |-> Truthy(standard),
             validated_exists |-> Truthy(validated)])]
    ELSE CompareSectionFields(rep, sectionName, standard, validated, fields, 1)

IdentityFields == <<"name_id", "city", "postal_code", "streets">>

compareSingleProperty(rep, standard, validated) ==
    LET \* a section holding breakdown_by_use: the breakdown is compared when
        \* both sides hold one
        Breakdowns(r, prefix, s, v, opts) ==
            LET sb == Field(s, "breakdown_by_use")
                vb == Field(v, "breakdown_by_use")
            IN  IF Truthy(sb) /\ Truthy(vb)
                THEN CompareBreakdown(r, prefix, sb, vb, UsageTypes(sb, vb), 1,
                                      opts)
                ELSE r
        sm == Field(standard, "property_metrics")
        vm == Field(validated, "property_metrics")
        sf == Field(standard, "financial")
        vf == Field(validated, "financial")
        sp == Field(standard, "project_details")
        vp == Field(validated, "project_details")
        su == Field(standard, "unit_counts")
        vu == Field(validated, "unit_counts")
        r1 == compareSection(rep, "property_identity",
                             Field(standard, "property_identity"),
                             Field(validated, "property_identity"),
                             IdentityFields)
        r2 == IF Truthy(sm) /\ Truthy(vm)
              THEN Breakdowns(
                      compareNumericField(
                          compareNumericField(r1,
                              "property_metrics.total_usable_area_sqm",
                              Field(sm, "total_usable_area_sqm"),
                              Field(vm, "total_usable_area_sqm"),
                              HundredthTolerance(Absent)),
                          "property_metrics.land_area_sqm",
                          Field(sm, "land_area_sqm"), Field(vm, "land_area_sqm"),
                          HundredthTolerance(Absent)),
                      "property_metrics.breakdown_by_use", sm, vm,
                      HundredthTolerance(Absent))
              ELSE r1
        r3 == IF Truthy(sf) /\ Truthy(vf)
              THEN Breakdowns(
                      compareNumericField(r2,
                          "financial.total_rental_income_annual_eur",
                          Field(sf, "total_rental_income_annual_eur"),
                          Field(vf, "total_rental_income_annual_eur"),
                          HundredthTolerance("high")),
                      "financial.breakdown_by_use", sf, vf,
                      HundredthTolerance("high"))
              ELSE r2
        r4 == IF Truthy(sp) /\ Truthy(vp)
              THEN compareField(
                      compareNumericField(r3,
                          "project_details.original_year_built",
                          Field(sp, "original_year_built"),
                          Field(vp, "original_year_built"),
                          [tolerance |-> Num(0), severity |-> "medium"]),
                      "project_details.project_type",
                      Field(sp, "project_type"), Field(vp, "project_type"),
                      [tolerance |-> Undefined, severity |-> "medium"])
              ELSE r3
    IN  IF Truthy(su) /\ Truthy(vu)
        THEN compareNumericField(r4, "unit_counts.parking_spaces",
                Field(su, "parking_spaces"), Field(vu, "parking_spaces"),
                [tolerance |-> Num(0), severity |-> "medium"])
        ELSE r4

\* the loop of comparePortfolio from index i (from 0)
RECURSIVE ComparePortfolioEntries(_, _, _, _, _)
ComparePortfolioEntries(rep, standard, validated, i, maxLength) ==
    IF i >= maxLength THEN rep
    ELSE LET ItemAt(arr) == IF i + 1 \in DOMAIN arr.items
                            THEN arr.items[i + 1] ELSE Undefined
             stdProp == ItemAt(standard)
             valProp == ItemAt(validated)
             path == "portfolio[" \o ToString(i) \o "]"
             r1 == IF ~Truthy(stdProp) \/ ~Truthy(valProp)
                   THEN [rep EXCEPT !.differences = Append(@,
                           [field |-> path, severity |-> "critical",
                            issue |-> "Property exists in one extraction but not the other",
                            standard_exists |-> Truthy(stdProp),
                            validated_exists |-> Truthy(valProp)])]
                   ELSE compareNumericField(
                           compareNumericField(
                               compareField(
                                   compareField(rep, path \o ".name_id",
                                       Field(stdProp, "name_id"),
                                       Field(valProp, "name_id"), NoOptions),
                                   path \o ".city", Field(stdProp, "city"),
                                   Field(valProp, "city"), NoOptions),
                               path \o ".rental_income_annual_eur",
                               Field(stdProp, "rental_income_annual_eur"),
                               Field(valProp, "rental_income_annual_eur"),
                               HundredthTolerance("high")),
                           path \o ".usable_area_sqm",
                           Field(stdProp, "usable_area_sqm"),
                           Field(valProp, "usable_area_sqm"),
                           HundredthTolerance(Absent))
         IN  ComparePortfolioEntries(r1, standard, validated, i + 1, maxLength)

comparePortfolio(rep, standard, validated) ==
    LET TypeOf(v) == CASE v.t = "undefined" -> "undefined"
                       [] v.t = "number"    -> "number"
                       [] v.t = "string"    -> "string"
                       [] OTHER             -> "object"
    IN  IF standard.t # "array" \/ validated.t # "array"
        THEN [rep EXCEPT !.differences = Append(@,
                [field |-> "portfolio_structure", severity |-> "critical",
                 issue |-> "One result is not an array",
                 standard_type |-> TypeOf(standard),
                 validated_type |-> TypeOf(validated)])]
        ELSE LET r1 == IF Len(standard.items) # Len(validated.items)
                       THEN [rep EXCEPT !.differences = Append(@,
                               [field |-> "portfolio_length",
                                severity |-> "critical",
                                issue |-> "Different number of properties extracted",
                                standard_count |-> Len(standard.items),
                                validated_count |-> Len(validated.items)])]
                       ELSE rep
             IN  ComparePortfolioEntries(r1, standard, validated, 0,
                    Max(Len(standard.items), Len(validated.items)))

\* the report object compare() starts from
InitialReport(validatedResult, type) ==
    LET val == Field(validatedResult, "validation")
        \* x?.length || 0
        LengthOrZero(v) == IF v.t = "array" THEN Len(v.items) ELSE 0
    IN  [property_type |-> type,
         differences |-> <<>>,
         statistics |-> [fields_compared |-> 0, fields_different |-> 0,
                         fields_identical |-> 0, improvement_detected |-> FALSE],
         confidence_metrics |->
            [validated_confidence |->
                OrElse(Field(val, "confidence_score"), Null),
             validation_issues_found |->
                LengthOrZero(Field(Field(val, "self_verification"),
                                   "critical_issues")),
             calculation_issues_found |->
                LengthOrZero(Field(Field(val, "calculation_validation"),
                                   "issues"))]]

compare(standardResult, validatedResult, type) ==
    LET rep == InitialReport(validatedResult, type)
        validated == OrElse(Field(validatedResult, "data"), validatedResult)
        r1 == IF type = "SINGLE"
              THEN compareSingleProperty(rep, standardResult, validated)
              ELSE comparePortfolio(rep, standardResult, validated)
    IN  [r1 EXCEPT !.statistics.improvement_detected =
            \E i \in DOMAIN r1.differences :
                r1.differences[i].severity \in {"high", "critical"}]

\* differences.filter(d => d.issue_type === t).length; a structural
\* Difference has no issue_type
CountIssueType(differences, t) ==
    Cardinality({i \in DOMAIN differences :
        /\ "issue_type" \in DOMAIN differences[i]
        /\ differences[i].issue_type = t})

\* ExtractionComparator.getRecommendation(comparisonReport)
ExtractionComparator_getRecommendation(comparisonReport) ==
    LET differences == comparisonReport.differences
        fabrications == CountIssueType(differences, "removed_fabrication")
        criticalIssues ==
            Cardinality({i \in DOMAIN differences :
                            differences[i].severity = "critical"})
        confidence == comparisonReport.confidence_metrics.validated_confidence
    IN  IF fabrications > 5 \/ criticalIssues > 3
        THEN "STRONGLY RECOMMENDED: Use validated extraction - standard extraction has significant accuracy issues"
        ELSE IF fabrications > 2 \/ criticalIssues > 0
        THEN "RECOMMENDED: Use validated extraction for improved accuracy"
        ELSE IF Truthy(confidence) /\ Less(confidence, Num(80))
        THEN "CAUTION: Both extractions may have issues - manual review recommended"
        ELSE IF Len(differences) = 0
        THEN "OPTIONAL: Both extractions produced identical results"
        ELSE "CONSIDER: Validated extraction provides incremental improvements"

\* ExtractionComparator.generateSummary(comparisonReport)
generateSummary(comparisonReport) ==
    LET statistics == comparisonReport.statistics
        differences == comparisonReport.differences
        confidence_metrics == comparisonReport.confidence_metrics
    IN  [overview |->
            [fields_compared |-> statistics.fields_compared,
             fields_different |-> statistics.fields_different,
             fields_identical |-> statistics.fields_identical,
             accuracy_improvement |->
                IF statistics.fields_compared > 0
                THEN PercentDifference(statistics.fields_different,
                                       statistics.fields_compared)
                ELSE [hundredths |-> 0, suffix |-> "N/A"]],
         critical_findings |->
            [high_severity_issues |->
                Cardinality({i \in DOMAIN differences :
                    differences[i].severity \in {"high", "critical"}}),
             fabrications_detected |->
                CountIssueType(differences, "removed_fabrication"),
             missing_data_found |->
                CountIssueType(differences, "added_missing_data")],
         validation_quality |->
            [confidence_score |-> confidence_metrics.validated_confidence,
             self_verification_issues |->
                confidence_metrics.validation_issues_found,
             calculation_issues |->
                confidence_metrics.calculation_issues_found],
         recommendation |->
            ExtractionComparator_getRecommendation(comparisonReport)]

-----------------------------------------------------------------------------
(* extractPropertyData (validatedClaudeService.js) and the routes           *)
(* /extract-clean and /extract-clean-with-report (cleanExtraction.js).      *)
(* The verification report is a tree; its field_verifications array holds   *)
(* the findings and its critical_issues array the notes as the applicator   *)
(* takes them.                                                              *)

HasErrorsWithoutNotes(verificationResult) ==
    LET vs == Field(verificationResult, "verification_summary")
    IN  \/ Less(Num(0), Field(vs, "incorrect"))
        \/ Less(Num(0), Field(vs, "fabricated"))

\* hasErrors: x > 0 is false for an absent x
HasErrors(verificationResult) ==
    LET vs == Field(verificationResult, "verification_summary")
        issues == Field(verificationResult, "critical_issues")
    IN  \/ Less(Num(0), Field(vs, "incorrect"))
        \/ Less(Num(0), Field(vs, "fabricated"))
        \/ (issues.t = "array" /\ Len(issues.items) > 0)

\* the object extractPropertyData returns, in the year it runs in
ResultOf(finalData, verificationResult, type, hasErrors, year) ==
    [data |-> finalData,
     validation |->
        [self_verification |-> verificationResult,
         calculation_validation |->
            validateCalculations(finalData, type, year),
         confidence_score |->
            OrElse(OrElse(Field(verificationResult, "confidence_score"),
                          Field(Field(verificationResult, "verification_summary"),
                                "overall_accuracy_percent")),
                   Null),
         corrections_applied |-> hasErrors],
     metadata |-> [classification |-> type,
                   validation_passes |-> IF hasErrors THEN 4 ELSE 3,
                   apiCallsCount |-> IF hasErrors THEN 4 ELSE 3]]

\* what applyIntelligentCorrections reads of its validation argument:
\* !validation, !validation.self_verification, field_verifications || [],
\* critical_issues || []
ValidationArgument(v) ==
    LET sv == v.self_verification
        ItemsOrNone(a) == IF a.t = "array" THEN a.items ELSE <<>>
    IN  [defined |-> TRUE,
         has_self_verification |-> Truthy(sv),
         field_verifications |-> ItemsOrNone(Field(sv, "field_verifications")),
         critical_issues |-> ItemsOrNone(Field(sv, "critical_issues"))]

\* cleanedData = applyIntelligentCorrections(result.data, result.validation),
\* as the JSON body it makes
CleanedData(res) ==
    LET p == Parse(<<>>, res.data)
        r == applyIntelligentCorrections(p.h, p.v,
                                         ValidationArgument(res.validation))
    IN  [threw |-> r.threw,
         body |-> IF r.threw THEN Undefined ELSE Structure(r.h, r.v)]

ReviewAdvisedWithoutCalculations(confidenceScore, fabrications, criticalIssues, calculationIssues) ==
    \/ Less(confidenceScore, Num(75))
    \/ Less(Num(2), fabrications)
    \/ criticalIssues > 2

\* the condition of the MEDIUM CONFIDENCE branch
ReviewAdvised(confidenceScore, fabrications, criticalIssues, calculationIssues) ==
    \/ Less(confidenceScore, Num(75))
    \/ Less(Num(2), fabrications)
    \/ criticalIssues > 2
    \/ calculationIssues > 2

\* getRecommendation(validation) of cleanExtraction.js; validation is null
\* or the validation object of a result
getRecommendation(v) ==
    IF v = Null THEN "No validation performed"
    ELSE LET sv == v.self_verification
             issues == Field(sv, "critical_issues")
             confidenceScore == OrElse(v.confidence_score, Num(0))
             fabrications ==
                OrElse(Field(Field(sv, "verification_summary"), "fabricated"),
                       Num(0))
             criticalIssues ==
                IF issues.t = "array" THEN Len(issues.items) ELSE 0
             calculationIssues ==
                CountSeverity(v.calculation_validation.issues, "high")
         IN  IF \/ Less(confidenceScore, Num(60))
                \/ Less(Num(5), fabrications)
                \/ criticalIssues > 5
             THEN "LOW CONFIDENCE - Manual review strongly recommended. Multiple critical issues detected."
             ELSE IF ReviewAdvised(confidenceScore, fabrications,
                                   criticalIssues, calculationIssues)
             THEN "MEDIUM CONFIDENCE - Review recommended for critical fields (financial data, areas)."
             ELSE IF /\ ~Less(confidenceScore, Num(90))
                     /\ fabrications = Num(0)
                     /\ criticalIssues = 0
             THEN "HIGH CONFIDENCE - Data appears accurate and reliable."
             ELSE "ACCEPTABLE CONFIDENCE - Data has been validated and corrected. Spot checks recommended."

\* Number.prototype.toString of an integer
NumberToString(v) == ToString(v.n)

-----------------------------------------------------------------------------
(* CustomLokiTransport.  JavaScript runs log, the timer callback, close and  *)
(* the response callbacks one at a time, each to its end.                    *)

flushKeepingBatch(pending, made) ==
    IF pending = <<>> THEN [batch |-> pending, requests |-> made]
    ELSE [batch |-> pending,
          requests |-> Append(made, [values |-> pending, state |-> "sent"])]

\* flush(): the payload takes a copy of the batch, the batch is emptied, the
\* request is written
flush(pending, made) ==
    IF pending = <<>> THEN [batch |-> pending, requests |-> made]
    ELSE [batch |-> <<>>,
          requests |-> Append(made, [values |-> pending, state |-> "sent"])]

\* no transport has been constructed
LokiIdle ==
    /\ batchSize = 10
    /\ batch = <<>>
    /\ flushTimer = FALSE
    /\ requests = <<>>
    /\ logged = 0

-----------------------------------------------------------------------------
(* Inputs of the comparator *)

MaxCalls == 2

CompareValues ==
    {Undefined, Null, Num(0), Num(1), Num(3), Num(-3), Num(2000),
     Str(<<"3">>), Str(<<"a", "b">>), Str(<<"a">>)}

Severities == {"low", "medium", "high", "critical"}

OptionValues ==
    [tolerance : {Undefined, Num(0), Num(2)}, severity : {Absent} \cup Severities]

FieldName == "field"

CompareInit ==
    /\ standardValue \in CompareValues
    /\ validatedValue \in CompareValues
    /\ options \in OptionValues
    /\ report = NewReport
    /\ calls = <<>>

\* what a call left behind: the differences it pushed and its counters
CallEntry(fn, std, val, before, after) ==
    [fn |-> fn, standard_value |-> std, validated_value |-> val,
     pushed |-> SubSeq(after.differences, Len(before.differences) + 1,
                       Len(after.differences)),
     compared  |-> after.statistics.fields_compared
                     - before.statistics.fields_compared,
     identical |-> after.statistics.fields_identical
                     - before.statistics.fields_identical,
     different |-> after.statistics.fields_different
                     - before.statistics.fields_different]

\* the caller compares the pair, in either order, as a plain field
CompareFieldCall ==
    /\ Len(calls) < MaxCalls
    /\ \E swap \in BOOLEAN :
         LET std == IF swap THEN validatedValue ELSE standardValue
             val == IF swap THEN standardValue ELSE validatedValue
             after == compareField(report, FieldName, std, val, options)
         IN  /\ report' = after
             /\ calls' = Append(calls,
                            CallEntry("compareField", std, val, report, after))
    /\ UNCHANGED <<standardValue, validatedValue, options>>

\* the caller compares the pair, in either order, as a numeric field
CompareNumericFieldCall ==
    /\ Len(calls) < MaxCalls
    /\ \E swap \in BOOLEAN :
         LET std == IF swap THEN validatedValue ELSE standardValue
             val == IF swap THEN standardValue ELSE validatedValue
             after == compareNumericField(report, FieldName, std, val, options)
         IN  /\ report' = after
             /\ calls' = Append(calls,
                            CallEntry("compareNumericField", std, val,
                                      report, after))
    /\ UNCHANGED <<standardValue, validatedValue, options>>

\* the applicator is not in use
CorrectIdle ==
    /\ heap = <<>>
    /\ data = Undefined
    /\ validation = [defined |-> FALSE, has_self_verification |-> FALSE,
                     field_verifications |-> <<>>, critical_issues |-> <<>>]
    /\ dataSnapshot = Undefined
    /\ phase = "idle"
    /\ corrected = Undefined /\ outcome = "none"
    /\ corrected2 = Undefined /\ outcome2 = "none"

\* the auditor is not in use
AuditIdle ==
    /\ auditData = Undefined
    /\ propertyType = "SINGLE"
    /\ currentYear = 0
    /\ auditResult = Undefined
    /\ auditPhase = "idle"

\* compare() is not in use
ReportIdle ==
    /\ standardInput = Undefined /\ validatedInput = Undefined
    /\ reportType = "SINGLE"
    /\ comparison = Undefined
    /\ summary = Undefined
    /\ reportPhase = "idle"

\* no request is being served
PipelineIdle ==
    /\ enableValidation = TRUE
    /\ classification = Undefined /\ extracted = Undefined
    /\ verification = Undefined /\ correctionToolUse = Undefined
    /\ result = Undefined /\ response = Undefined
    /\ apiCalls = <<>>
    /\ pipePhase = "idle"

Init == CompareInit /\ CorrectIdle /\ AuditIdle /\ ReportIdle /\ PipelineIdle /\ LokiIdle

Next ==
    \/ CompareFieldCall /\ UNCHANGED <<correctVars, auditVars, reportVars, pipeVars, lokiVars>>
    \/ CompareNumericFieldCall /\ UNCHANGED <<correctVars, auditVars, reportVars, pipeVars, lokiVars>>

Spec == Init /\ [][Next]_vars

-----------------------------------------------------------------------------
(* Inputs of the applicator *)

MaxFindings == 2

NA == Str(<<"n", "/", "a">>)

Rec1(k, v) == Obj([x \in {k} |-> v])
Rec2(k1, v1, k2, v2) == Obj([x \in {k1, k2} |-> IF x = k1 THEN v1 ELSE v2])

\* extracted records: sections absent, null, a string where a section is
\* expected, and well-formed sections
RecordTrees ==
    { Obj(EmptyFields),
      Rec1("property_metrics", Null),
      Rec1("property_metrics", NA),
      Rec1("property_metrics", Rec1("land_area_sqm", Num(42277))),
      Rec1("property_metrics",
           Rec2("land_area_sqm", Num(42277),
                "breakdown_by_use", Rec1("parking_sqm", Num(120)))),
      Rec1("property_metrics",
           Rec2("land_area_sqm", Null, "breakdown_by_use", NA)) }

\* a correct_value that is a mapping
ProposedMetrics == Rec1("land_area_sqm", Num(900))

FieldPaths ==
    { Str(<<"property_metrics">>),
      Str(<<"property_metrics", "land_area_sqm">>),
      Str(<<"property_metrics", "breakdown_by_use", "parking_sqm">>) }

\* the findings a report may hold; obj is the report's mapping-valued
\* correct_value.  CORRECT and UNCERTAIN findings are looked at and skipped.
\* A finding may lack its field_path as it may lack its correct_value.
Findings(obj) ==
    [status : {"INCORRECT"}, field_path : FieldPaths,
     correct_value : {Undefined, Num(5000), obj}]
    \cup
    [status : {"FABRICATED"}, field_path : FieldPaths,
     correct_value : {Undefined, Num(5000)}]
    \cup
    [status : {"MISSING"},
     field_path : {Str(<<"property_metrics", "land_area_sqm">>)},
     correct_value : {Undefined, Num(5000)}]
    \cup
    { [status |-> "CORRECT",
       field_path |-> Str(<<"property_metrics", "land_area_sqm">>),
       correct_value |-> Undefined],
      [status |-> "UNCERTAIN", field_path |-> Undefined,
       correct_value |-> Undefined],
      [status |-> "FABRICATED", field_path |-> Undefined,
       correct_value |-> Undefined] }

RECURSIVE ListsUpTo(_, _)
ListsUpTo(S, n) ==
    IF n = 0 THEN {<<>>}
    ELSE LET shorter == ListsUpTo(S, n - 1)
         IN  shorter \cup {Append(l, x) : l \in {m \in shorter : Len(m) = n - 1}, x \in S}

\* the notes a report may hold; an entry may be a mapping in place of a
\* string
CriticalIssueLists ==
    { <<>>,
      << Str(<<"Land", "area", "not", "stated", "in", "document">>) >>,
      << Str(<<"Parking", "area", "in", "sqm", "is", "fabricated">>) >>,
      << Str(<<"Land", "area", "is", "fabricated">>) >>,
      << Rec1("issue", Str(<<"Land", "area", "not", "stated">>)) >> }

Validations(obj) ==
    { [defined |-> FALSE, has_self_verification |-> FALSE,
       field_verifications |-> <<>>, critical_issues |-> <<>>],
      [defined |-> TRUE, has_self_verification |-> FALSE,
       field_verifications |-> <<>>, critical_issues |-> <<>>] }
    \cup
    [defined : {TRUE}, has_self_verification : {TRUE},
     field_verifications : ListsUpTo(Findings(obj), MaxFindings),
     critical_issues :
        {l \in CriticalIssueLists : \A i \in DOMAIN l : IsStr(l[i])}]
    \cup
    [defined : {TRUE}, has_self_verification : {TRUE},
     field_verifications : ListsUpTo(Findings(obj), MaxFindings - 1),
     critical_issues :
        {l \in CriticalIssueLists : \E i \in DOMAIN l : ~IsStr(l[i])}]

\* the record and the report are parsed from separate JSON texts: they share
\* no object
CorrectInit ==
    /\ \E tree \in RecordTrees :
         LET d == Parse(<<>>, tree)
             o == Parse(d.h, ProposedMetrics)
         IN  /\ heap = o.h
             /\ data = d.v
             /\ dataSnapshot = tree
             /\ validation \in Validations(o.v)
    /\ phase = "ready"
    /\ corrected = Undefined /\ outcome = "none"
    /\ corrected2 = Undefined /\ outcome2 = "none"

\* the comparator is not in use
CompareIdle ==
    /\ standardValue = Undefined /\ validatedValue = Undefined
    /\ options = [tolerance |-> Undefined, severity |-> Absent]
    /\ report = NewReport
    /\ calls = <<>>

\* cleanedData = applyIntelligentCorrections(result.data, result.validation)
ApplyCorrections ==
    /\ phase = "ready"
    /\ LET r == applyIntelligentCorrections(heap, data, validation)
       IN  /\ heap' = r.h
           /\ corrected' = r.v
           /\ outcome' = IF r.threw THEN "threw" ELSE "returned"
    /\ phase' = "applied"
    /\ UNCHANGED <<data, validation, dataSnapshot, corrected2, outcome2>>

\* the same report applied to the record the first call returned
ReapplyCorrections ==
    /\ phase = "applied"
    /\ outcome = "returned"
    /\ LET r == applyIntelligentCorrections(heap, corrected, validation)
       IN  /\ heap' = r.h
           /\ corrected2' = r.v
           /\ outcome2' = IF r.threw THEN "threw" ELSE "returned"
    /\ phase' = "reapplied"
    /\ UNCHANGED <<data, validation, dataSnapshot, corrected, outcome>>

CorrectNext ==
    \/ ApplyCorrections /\ UNCHANGED <<compareVars, auditVars, reportVars, pipeVars, lokiVars>>
    \/ ReapplyCorrections /\ UNCHANGED <<compareVars, auditVars, reportVars, pipeVars, lokiVars>>

CorrectStart ==
    CorrectInit /\ CompareIdle /\ AuditIdle /\ ReportIdle /\ PipelineIdle /\ LokiIdle

CorrectSpec == CorrectStart /\ [][CorrectNext]_vars

-----------------------------------------------------------------------------
(* Inputs of the auditor *)

MaxEntries == 2

\* a mapping holding the keys of ks whose value in f is not undefined
Mapping(ks, f) == Obj([k \in {x \in ks : f[x] # Undefined} |-> f[k]])

AreaBreakdowns ==
    {Undefined} \cup
    { Mapping({"office_sqm", "retail_sqm"}, f) :
        f \in [office_sqm : {Null, Num(100), Num(520), Num(521)},
               retail_sqm : {Undefined, Num(50), Num(500)}] }

AreaTotals ==
    {Undefined, Num(0), Num(150), Num(160), Num(161), Num(200), Num(1000)}

IncomeBreakdowns ==
    {Undefined} \cup
    { Mapping({"office_eur", "retail_eur"}, f) :
        f \in [office_eur : {Num(40000)},
               retail_eur : {Undefined, Num(62000), Num(62001)}] }

IncomeTotals ==
    {Undefined, Num(0), Num(41000), Num(41001), Num(100000)}

ProjectDetails ==
    { Mapping({"original_year_built", "completion_year"}, f) :
        f \in [original_year_built : {Undefined, Num(1799), Num(2015), Num(2037)},
               completion_year : {Undefined, Num(2010), Num(2015)}] }

UsageDetails ==
    {Undefined} \cup
    { Rec1("overall_occupancy_percent", v) : v \in {Null, Num(-1), Num(50), Num(100), Num(105)} }

SingleRecords ==
    { Mapping({"property_metrics", "financial", "project_details",
               "usage_details"}, f) :
        f \in [property_metrics :
                  { Mapping({"breakdown_by_use", "total_usable_area_sqm"}, m) :
                      m \in [breakdown_by_use : AreaBreakdowns,
                             total_usable_area_sqm : AreaTotals] },
               financial :
                  { Mapping({"breakdown_by_use",
                             "total_rental_income_annual_eur"}, m) :
                      m \in [breakdown_by_use : IncomeBreakdowns,
                             total_rental_income_annual_eur : IncomeTotals] },
               project_details : ProjectDetails,
               usage_details : UsageDetails] }

PortfolioEntries ==
    { Mapping({"name_id", "occupancy_rate_percent", "year_built"}, f) :
        f \in { [name_id |-> Str(<<"A">>), occupancy_rate_percent |-> Num(50),
                 year_built |-> Num(2000)],
                [name_id |-> Str(<<"B">>), occupancy_rate_percent |-> Num(105),
                 year_built |-> Num(1700)],
                [name_id |-> Str(<<"C">>), occupancy_rate_percent |-> Null,
                 year_built |-> Null],
                [name_id |-> Str(<<"D">>), occupancy_rate_percent |-> Undefined,
                 year_built |-> Undefined],
                [name_id |-> Str(<<"E">>), occupancy_rate_percent |-> Num(-1),
                 year_built |-> Num(2037)],
                [name_id |-> Str(<<"F">>), occupancy_rate_percent |-> Num(100),
                 year_built |-> Num(1800)] } }

Portfolios == { Arr(l) : l \in ListsUpTo(PortfolioEntries, MaxEntries) }

CurrentYears == {2026}

AuditInit ==
    /\ \/ propertyType = "SINGLE" /\ auditData \in SingleRecords
       \/ propertyType = "PORTFOLIO" /\ auditData \in Portfolios
    /\ currentYear \in CurrentYears
    /\ auditResult = Undefined
    /\ auditPhase = "ready"

\* calculationValidation = this.validateCalculations(finalData,
\* classificationType)
ValidateCalculations ==
    /\ auditPhase = "ready"
    /\ auditResult' = validateCalculations(auditData, propertyType, currentYear)
    /\ auditPhase' = "done"
    /\ UNCHANGED <<auditData, propertyType, currentYear>>

AuditNext ==
    /\ ValidateCalculations
    /\ UNCHANGED <<compareVars, correctVars, reportVars, pipeVars, lokiVars>>

AuditStart ==
    AuditInit /\ CompareIdle /\ CorrectIdle /\ ReportIdle /\ PipelineIdle /\ LokiIdle

AuditSpec == AuditStart /\ [][AuditNext]_vars

-----------------------------------------------------------------------------
(* Inputs of compare and generateSummary *)

\* the standard side of a SINGLE comparison: identity, metrics with or
\* without a breakdown map, financial; a breakdown key may be absent, hold
\* null or hold a number
ComparedBreakdowns ==
    {Undefined} \cup
    { Mapping({"office_sqm", "retail_sqm"}, f) :
        f \in [office_sqm : {Num(600)},
               retail_sqm : {Undefined, Null, Num(400), Num(401)}] }

StandardIdentity ==
    [name_id |-> Str(<<"A">>), city |-> Str(<<"a", "b">>),
     postal_code |-> Str(<<"1">>), streets |-> Str(<<"s">>)]

SingleRecordOf(identity, metrics, financial) ==
    Mapping({"property_identity", "property_metrics", "financial"},
            [property_identity |-> identity, property_metrics |-> metrics,
             financial |-> financial])

StandardSingles ==
    { SingleRecordOf(
        Mapping(DOMAIN StandardIdentity, StandardIdentity),
        Mapping({"total_usable_area_sqm", "land_area_sqm", "breakdown_by_use"},
                [total_usable_area_sqm |-> Num(1000),
                 land_area_sqm |-> Num(500), breakdown_by_use |-> b]),
        Rec1("total_rental_income_annual_eur", Num(9000))) :
      b \in ComparedBreakdowns }

\* the validated side: the identity section as on the standard side, with
\* the city shortened, with its first n fields null, or absent; totals kept
\* or null; any breakdown; the income total kept, null or a string
ValidatedSingles ==
    LET Identities ==
            {Undefined,
             Mapping(DOMAIN StandardIdentity,
                     [StandardIdentity EXCEPT !.city = Str(<<"a">>)])}
            \cup
            { Mapping(DOMAIN StandardIdentity,
                      [k \in DOMAIN StandardIdentity |->
                          IF \E i \in 1..n : IdentityFields[i] = k
                          THEN Null ELSE StandardIdentity[k]]) : n \in 0..4 }
        Metrics ==
            { Mapping({"total_usable_area_sqm", "land_area_sqm",
                       "breakdown_by_use"}, f) :
                f \in [total_usable_area_sqm : {Num(1000), Null},
                       land_area_sqm : {Num(500), Null},
                       breakdown_by_use : ComparedBreakdowns] }
        Financials ==
            {Undefined} \cup
            { Rec1("total_rental_income_annual_eur", v) :
                v \in {Num(9000), Null, NA} }
    IN  { SingleRecordOf(i, m, f) :
            i \in Identities, m \in Metrics, f \in Financials }

ComparedPortfolios ==
    LET Entries ==
            { Mapping({"name_id", "city", "rental_income_annual_eur",
                       "usable_area_sqm"}, f) :
                f \in { [name_id |-> Str(<<"A">>), city |-> Str(<<"a", "b">>),
                         rental_income_annual_eur |-> Num(9000),
                         usable_area_sqm |-> Num(1000)],
                        [name_id |-> Null, city |-> Null,
                         rental_income_annual_eur |-> Null,
                         usable_area_sqm |-> Null] } }
    IN  { Arr(l) : l \in ListsUpTo(Entries, MaxEntries) }

ConfidenceScores == {Undefined, Num(0), Num(79), Num(80)}

\* the validated result: { data, validation: { confidence_score } }, or the
\* bare record when there is no validation
ValidatedResultOf(record, score) ==
    IF score = Undefined THEN record
    ELSE Rec2("data", record, "validation", Rec1("confidence_score", score))

ReportInit ==
    /\ \E score \in ConfidenceScores :
          \/ /\ reportType = "SINGLE"
             /\ standardInput \in StandardSingles
             /\ \E v \in ValidatedSingles :
                   validatedInput = ValidatedResultOf(v, score)
          \/ /\ reportType = "PORTFOLIO"
             /\ standardInput \in ComparedPortfolios
             /\ \E v \in ComparedPortfolios \cup {Obj(EmptyFields)} :
                   validatedInput = ValidatedResultOf(v, score)
    /\ comparison = Undefined
    /\ summary = Undefined
    /\ reportPhase = "ready"

\* comparison = extractionCompare.compare(standard, validated, type)
Compare ==
    /\ reportPhase = "ready"
    /\ comparison' = compare(standardInput, validatedInput, reportType)
    /\ reportPhase' = "compared"
    /\ UNCHANGED <<standardInput, validatedInput, reportType, summary>>

\* summary = extractionCompare.generateSummary(comparison)
GenerateSummary ==
    /\ reportPhase = "compared"
    /\ summary' = generateSummary(comparison)
    /\ reportPhase' = "summarised"
    /\ UNCHANGED <<standardInput, validatedInput, reportType, comparison>>

ReportNext ==
    \/ Compare /\ UNCHANGED <<compareVars, correctVars, auditVars, pipeVars, lokiVars>>
    \/ GenerateSummary
          /\ UNCHANGED <<compareVars, correctVars, auditVars, pipeVars, lokiVars>>

ReportStart ==
    ReportInit /\ CompareIdle /\ CorrectIdle /\ AuditIdle /\ PipelineIdle /\ LokiIdle

ReportSpec == ReportStart /\ [][ReportNext]_vars

-----------------------------------------------------------------------------
(* Inputs and steps of extractPropertyData and of the routes *)

\* what the extraction pass may return for a SINGLE document: a sound
\* record, and one whose area sum, income sum and occupancy are all wrong; a
\* correction pass returns the sound one
SoundRecord ==
    Rec1("property_metrics",
         Mapping({"land_area_sqm", "total_usable_area_sqm", "breakdown_by_use"},
                 [land_area_sqm |-> Num(42277),
                  total_usable_area_sqm |-> Num(150),
                  breakdown_by_use |->
                     Rec2("office_sqm", Num(100), "retail_sqm", Num(50))]))

ExtractedRecords(type) ==
    IF type = "SINGLE"
    THEN { SoundRecord,
           Mapping({"property_metrics", "financial", "usage_details"},
              [property_metrics |->
                  Mapping({"land_area_sqm", "total_usable_area_sqm",
                           "breakdown_by_use"},
                          [land_area_sqm |-> Num(42277),
                           total_usable_area_sqm |-> Num(200),
                           breakdown_by_use |->
                              Rec2("office_sqm", Num(100),
                                   "retail_sqm", Num(50))]),
               financial |->
                  Rec2("total_rental_income_annual_eur", Num(100000),
                       "breakdown_by_use", Rec1("office_eur", Num(40000))),
               usage_details |-> Rec1("overall_occupancy_percent", Num(105))]) }
    ELSE { Arr(<< Mapping({"name_id", "occupancy_rate_percent", "year_built"},
                     [name_id |-> Str(<<"A">>),
                      occupancy_rate_percent |-> Num(50),
                      year_built |-> Num(2000)]) >>) }

\* what JSON.parse makes of the verification text: a report with any of its
\* sections absent
ParsedReports ==
    { Mapping({"verification_summary", "field_verifications",
               "critical_issues", "confidence_score"}, f) :
        f \in [verification_summary :
                 {Undefined} \cup
                 { Mapping({"total_fields_checked", "correct", "incorrect",
                            "fabricated", "overall_accuracy_percent"}, m) :
                     m \in [total_fields_checked : {Num(50)},
                            correct : {Num(42)},
                            incorrect : {Num(0), Num(1)},
                            fabricated : {Num(0), Num(1), Num(3), Num(6)},
                            overall_accuracy_percent : {Undefined, Num(84)}] },
               field_verifications :
                 {Undefined,
                  Arr(<< [status |-> "FABRICATED",
                          field_path |->
                             Str(<<"property_metrics", "land_area_sqm">>),
                          correct_value |-> Undefined] >>),
                  Arr(<< [status |-> "INCORRECT",
                          field_path |->
                             Str(<<"property_metrics",
                                   "total_usable_area_sqm">>),
                          correct_value |-> Num(150)] >>)},
               critical_issues :
                 {Undefined,
                  Arr(<< Str(<<"Land", "area", "not", "stated", "in",
                               "document">>) >>)}
                 \cup { Arr([i \in 1..n |-> Str(<<"Wrong", "city">>)]) :
                           n \in {0, 1, 3, 6} },
               confidence_score :
                 {Undefined, Num(0), Num(59), Num(60), Num(74), Num(75),
                  Num(89), Num(90)}] }

\* verificationResult = { error: 'Failed to parse verification', raw }
UnparsedReport ==
    Rec2("error", Str(<<"Failed to parse verification">>),
         "raw", Str(<<"I could not verify the document.">>))

PipelineInit ==
    /\ enableValidation \in BOOLEAN
    /\ classification = Undefined /\ extracted = Undefined
    /\ verification = Undefined /\ correctionToolUse = Undefined
    /\ result = Undefined /\ response = Undefined
    /\ apiCalls = <<"classification">>
    /\ pipePhase = "classifying"

\* the classification response arrives
ClassificationPass ==
    /\ pipePhase = "classifying"
    /\ \E text \in {"SINGLE", "PORTFOLIO", "UNKNOWN"} :
          /\ classification' = text
          /\ IF text # "SINGLE" /\ text # "PORTFOLIO"
             THEN pipePhase' = "failed" /\ UNCHANGED apiCalls
             ELSE /\ pipePhase' = "extracting"
                  /\ apiCalls' = Append(apiCalls, "extraction")
    /\ UNCHANGED <<enableValidation, extracted, verification, correctionToolUse,
                   result, response>>

\* the extraction response arrives, with or without a tool_use block
ExtractionPass ==
    /\ pipePhase = "extracting"
    /\ \E input \in ExtractedRecords(classification) \cup {Undefined} :
          IF input = Undefined
          THEN /\ pipePhase' = "failed"
               /\ UNCHANGED <<extracted, apiCalls, result>>
          ELSE IF ~enableValidation
          THEN /\ extracted' = input
               /\ result' = [data |-> input, validation |-> Null]
               /\ pipePhase' = "returned"
               /\ UNCHANGED apiCalls
          ELSE /\ extracted' = input
               /\ pipePhase' = "verifying"
               /\ apiCalls' = Append(apiCalls, "verification")
               /\ UNCHANGED result
    /\ UNCHANGED <<enableValidation, classification, verification,
                   correctionToolUse, response>>

\* the verification response arrives; its text parses or not.  Without
\* errors the function goes on to STEP 5 and returns.  The findings of the
\* model address the sections of a SINGLE record.
VerificationPass ==
    /\ pipePhase = "verifying"
    /\ \E v \in ParsedReports \cup {UnparsedReport} :
          /\ classification = "PORTFOLIO" =>
                Field(v, "field_verifications") = Undefined
          /\ verification' = v
          /\ IF HasErrors(v)
             THEN /\ pipePhase' = "correcting"
                  /\ apiCalls' = Append(apiCalls, "correction")
                  /\ UNCHANGED result
             ELSE /\ pipePhase' = "returned"
                  /\ result' = ResultOf(extracted, v, classification, FALSE,
                                        CHOOSE y \in CurrentYears : TRUE)
                  /\ UNCHANGED apiCalls
    /\ UNCHANGED <<enableValidation, classification, extracted,
                   correctionToolUse, response>>

\* the correction response arrives, with or without a tool_use block
CorrectionPass ==
    /\ pipePhase = "correcting"
    /\ \E input \in (IF classification = "SINGLE" THEN {SoundRecord} ELSE {})
                       \cup {Undefined} :
          /\ correctionToolUse' =
                IF input = Undefined THEN Undefined ELSE Rec1("input", input)
          /\ result' = ResultOf(IF input = Undefined THEN extracted ELSE input,
                                verification, classification, TRUE,
                                CHOOSE y \in CurrentYears : TRUE)
    /\ pipePhase' = "returned"
    /\ UNCHANGED <<enableValidation, classification, extracted, verification,
                   response, apiCalls>>

\* POST /extract-clean after extractPropertyData returned.  The schema
\* validation of the cleaned data only logs.  An exception goes to
\* next(error).
ExtractClean ==
    /\ pipePhase = "returned"
    /\ enableValidation
    /\ LET cleanedData == CleanedData(result)
           v == result.validation
           sv == v.self_verification
           issues == Field(sv, "critical_issues")
           confidenceScore == OrElse(v.confidence_score, Num(0))
           fabricationsDetected ==
              OrElse(Field(Field(sv, "verification_summary"), "fabricated"),
                     Num(0))
           criticalIssues == IF issues.t = "array" THEN Len(issues.items) ELSE 0
       IN  response' =
              IF cleanedData.threw
              THEN [route |-> "/extract-clean", failed |-> TRUE]
              ELSE [route |-> "/extract-clean", failed |-> FALSE,
                    body |-> cleanedData.body,
                    headers |->
                       [confidence_score |-> NumberToString(confidenceScore),
                        corrections_applied |->
                           IF v.corrections_applied THEN "true" ELSE "false",
                        fabrications_detected |->
                           NumberToString(fabricationsDetected),
                        validation_issues |-> ToString(criticalIssues),
                        classification |-> result.metadata.classification]]
    /\ pipePhase' = "responded"
    /\ UNCHANGED <<enableValidation, classification, extracted, verification,
                   correctionToolUse, result, apiCalls>>

\* POST /extract-clean-with-report after extractPropertyData returned
ExtractCleanWithReport ==
    /\ pipePhase = "returned"
    /\ enableValidation
    /\ LET cleanedData == CleanedData(result)
           v == result.validation
           sv == v.self_verification
       IN  response' =
              IF cleanedData.threw
              THEN [route |-> "/extract-clean-with-report", failed |-> TRUE]
              ELSE [route |-> "/extract-clean-with-report", failed |-> FALSE,
                    body |->
                       [data |-> cleanedData.body,
                        report |->
                           [confidence_score |->
                               OrElse(v.confidence_score, Num(0)),
                            corrections_applied |-> v.corrections_applied,
                            verification_summary |->
                               OrElse(Field(sv, "verification_summary"),
                                      Obj(EmptyFields)),
                            critical_issues |->
                               OrElse(Field(sv, "critical_issues"), Arr(<<>>)),
                            calculation_issues |->
                               v.calculation_validation.issues,
                            recommendation |-> getRecommendation(v)]]]
    /\ pipePhase' = "responded"
    /\ UNCHANGED <<enableValidation, classification, extracted, verification,
                   correctionToolUse, result, apiCalls>>

PipelineNext ==
    \/ ClassificationPass
          /\ UNCHANGED <<compareVars, correctVars, auditVars, reportVars, lokiVars>>
    \/ ExtractionPass
          /\ UNCHANGED <<compareVars, correctVars, auditVars, reportVars, lokiVars>>
    \/ VerificationPass
          /\ UNCHANGED <<compareVars, correctVars, auditVars, reportVars, lokiVars>>
    \/ CorrectionPass
          /\ UNCHANGED <<compareVars, correctVars, auditVars, reportVars, lokiVars>>
    \/ ExtractClean
          /\ UNCHANGED <<compareVars, correctVars, auditVars, reportVars, lokiVars>>
    \/ ExtractCleanWithReport
          /\ UNCHANGED <<compareVars, correctVars, auditVars, reportVars, lokiVars>>

PipelineStart ==
    PipelineInit /\ CompareIdle /\ CorrectIdle /\ AuditIdle /\ ReportIdle
        /\ LokiIdle

PipelineSpec == PipelineStart /\ [][PipelineNext]_vars

-----------------------------------------------------------------------------
(* Calls and callbacks of CustomLokiTransport *)

MaxLogs == 5

\* new CustomLokiTransport(opts): an empty batch and a running timer
LokiInit ==
    /\ batchSize \in {1, 2, 3}
    /\ batch = <<>>
    /\ flushTimer = TRUE
    /\ requests = <<>>
    /\ logged = 0

\* log(info, callback); the entry is known by its number
Log ==
    /\ logged < MaxLogs
    /\ logged' = logged + 1
    /\ LET pushed == Append(batch, logged + 1)
           r == IF Len(pushed) >= batchSize THEN flush(pushed, requests)
                ELSE [batch |-> pushed, requests |-> requests]
       IN  batch' = r.batch /\ requests' = r.requests
    /\ UNCHANGED <<batchSize, flushTimer>>

\* the setInterval callback
TimerTick ==
    /\ flushTimer
    /\ LET r == IF Len(batch) > 0 THEN flush(batch, requests)
                ELSE [batch |-> batch, requests |-> requests]
       IN  batch' = r.batch /\ requests' = r.requests
    /\ UNCHANGED <<batchSize, flushTimer, logged>>

\* close()
Close ==
    /\ LET r == flush(batch, requests)
       IN  batch' = r.batch /\ requests' = r.requests
    /\ flushTimer' = FALSE
    /\ UNCHANGED <<batchSize, logged>>

\* the response of a request ends with status 204, or with another status,
\* or the request fails: an 'error' event is emitted and nothing else is done
PushCompletes ==
    /\ \E i \in DOMAIN requests, state \in {"accepted", "failed"} :
          /\ requests[i].state = "sent"
          /\ requests' = [requests EXCEPT ![i].state = state]
    /\ UNCHANGED <<batchSize, batch, flushTimer, logged>>

LokiNext ==
    \/ Log
          /\ UNCHANGED <<compareVars, correctVars, auditVars, reportVars, pipeVars>>
    \/ TimerTick
          /\ UNCHANGED <<compareVars, correctVars, auditVars, reportVars, pipeVars>>
    \/ Close
          /\ UNCHANGED <<compareVars, correctVars, auditVars, reportVars, pipeVars>>
    \/ PushCompletes
          /\ UNCHANGED <<compareVars, correctVars, auditVars, reportVars, pipeVars>>

LokiStart ==
    LokiInit /\ CompareIdle /\ CorrectIdle /\ AuditIdle /\ ReportIdle
        /\ PipelineIdle

LokiSpec == LokiStart /\ [][LokiNext]_vars

-----------------------------------------------------------------------------
(* Properties of the comparator *)

NumericCall(c) == c.fn = "compareNumericField"

Coercible(v) == v # Null /\ ToNumber(v) # NaN

\* C1: every comparison, plain or numeric, whose standard value is not null
\* and whose validated value is null pushes one Difference, of issue_type
\* removed_fabrication and severity critical, whatever severity the caller
\* passed in the options.
C1_FabricationIsCritical ==
    \A i \in DOMAIN calls :
        (calls[i].standard_value # Null /\ calls[i].validated_value = Null)
        => /\ Len(calls[i].pushed) = 1
           /\ calls[i].pushed[1].issue_type = "removed_fabrication"
           /\ calls[i].pushed[1].severity = "critical"

\* a non-null -> null comparison has run with the caller asking for 'low'
C1_Witness ==
    /\ options.severity = "low"
    /\ \E i \in DOMAIN calls :
          /\ calls[i].standard_value = Num(2000)
          /\ calls[i].validated_value = Null
          /\ Len(calls[i].pushed) = 1

\* C2: a numeric comparison of two numbers a, b with |a - b| <= tolerance
\* pushes no Difference and is counted as identical.
C2_WithinToleranceIsIdentical ==
    \A i \in DOMAIN calls :
        (/\ NumericCall(calls[i])
         /\ IsNum(calls[i].standard_value)
         /\ IsNum(calls[i].validated_value)
         /\ Abs(calls[i].standard_value.n - calls[i].validated_value.n)
               <= ToleranceOption(options))
        => /\ calls[i].pushed = <<>>
           /\ calls[i].identical = 1
           /\ calls[i].different = 0

\* two different numbers within a positive tolerance have been compared
C2_Witness ==
    \E i \in DOMAIN calls :
        /\ NumericCall(calls[i])
        /\ calls[i].standard_value = Num(1)
        /\ calls[i].validated_value = Num(3)
        /\ ToleranceOption(options) = 2
        /\ calls[i].identical = 1

\* C3: numeric comparisons of (a, b) and of (b, a), under the same options,
\* agree on whether a Difference is pushed, and when one is pushed both
\* carry the same absolute_difference.
C3_NumericSymmetry ==
    \A i, j \in DOMAIN calls :
        (/\ NumericCall(calls[i]) /\ NumericCall(calls[j])
         /\ Coercible(calls[i].standard_value)
         /\ Coercible(calls[i].validated_value)
         /\ calls[j].standard_value = calls[i].validated_value
         /\ calls[j].validated_value = calls[i].standard_value)
        => /\ (calls[i].pushed = <<>>) <=> (calls[j].pushed = <<>>)
           /\ calls[i].pushed # <<>> =>
                 calls[i].pushed[1].absolute_difference
                    = calls[j].pushed[1].absolute_difference

\* (1, 3) and (3, 1) have both been compared and both pushed a Difference
C3_Witness ==
    \E i, j \in DOMAIN calls :
        /\ NumericCall(calls[i]) /\ NumericCall(calls[j])
        /\ calls[i].standard_value = Num(1) /\ calls[i].validated_value = Num(3)
        /\ calls[j].standard_value = Num(3) /\ calls[j].validated_value = Num(1)
        /\ calls[i].pushed # <<>> /\ calls[j].pushed # <<>>
        /\ calls[i].pushed[1].percent_difference
              # calls[j].pushed[1].percent_difference

\* C4: every call of compareField or compareNumericField adds one to
\* fields_compared and one to exactly one of fields_identical and
\* fields_different, so fields_compared = fields_identical + fields_different
\* in every state of the report.
C4_StatisticsAddUp ==
    /\ report.statistics.fields_compared
          = report.statistics.fields_identical
               + report.statistics.fields_different
    /\ report.statistics.fields_compared = Len(calls)
    /\ \A i \in DOMAIN calls :
          /\ calls[i].compared = 1
          /\ calls[i].identical + calls[i].different = 1
          /\ calls[i].identical \in {0, 1}

\* a report that has counted a type mismatch and an identical field
C4_Witness ==
    /\ report.statistics.fields_identical = 1
    /\ report.statistics.fields_different = 1
    /\ \E i \in DOMAIN calls :
          /\ calls[i].pushed # <<>>
          /\ calls[i].pushed[1].issue_type = "type_mismatch"

-----------------------------------------------------------------------------
(* Properties of the applicator *)

\* reading record.p1.p2...pn; undefined when a segment cannot be read
RECURSIVE ReadPath(_, _, _, _)
ReadPath(h, v, parts, i) ==
    IF i > Len(parts) THEN v
    ELSE IF v = Undefined \/ v = Null THEN Undefined
    ELSE ReadPath(h, GetProp(h, v, parts[i]), parts, i + 1)

SingleFinding ==
    /\ validation.defined /\ validation.has_self_verification
    /\ Len(validation.field_verifications) = 1
    /\ validation.critical_issues = <<>>

\* C5: applyIntelligentCorrections never mutates the record it is given:
\* the structure of data is, in every state, the structure it had before
\* the call, whatever the report holds and whether or not the call throws.
C5_RecordNotMutated ==
    Structure(heap, data) = dataSnapshot

\* a call has changed land_area_sqm in its result while data holds 42277
C5_Witness ==
    /\ phase = "applied" /\ outcome = "returned"
    /\ ReadPath(heap, data, <<"property_metrics", "land_area_sqm">>, 1)
          = Num(42277)
    /\ ReadPath(heap, corrected, <<"property_metrics", "land_area_sqm">>, 1)
          = Null

\* C6: applying the same report to the record a call returned yields a
\* record structurally equal to it.
C6_Idempotent ==
    phase = "reapplied" =>
        /\ outcome2 = "returned"
        /\ Structure(heap, corrected2) = Structure(heap, corrected)

\* whenever the second call returns, its result is structurally equal to the
\* first call's
X6_IdempotentWhenReturns ==
    (phase = "reapplied" /\ outcome2 = "returned") =>
        Structure(heap, corrected2) = Structure(heap, corrected)

\* C7: after a report whose one finding is FABRICATED at path P, the
\* corrected record has null at P, whatever correct_value the finding holds.
C7_FabricatedIsNull ==
    (/\ phase = "applied"
     /\ SingleFinding
     /\ validation.field_verifications[1].status = "FABRICATED"
     /\ IsStr(validation.field_verifications[1].field_path))
    => /\ outcome = "returned"
       /\ ReadPath(heap, corrected,
                   validation.field_verifications[1].field_path.s, 1) = Null

\* C8: after a report whose one finding is INCORRECT or MISSING with a
\* defined correct_value at path P (and no critical-issue note), reading P
\* in the corrected record yields correct_value, whatever the record held at
\* P and at the segments before it.
C8_CorrectValueAtPath ==
    (/\ phase = "applied"
     /\ SingleFinding
     /\ validation.field_verifications[1].status \in {"INCORRECT", "MISSING"}
     /\ validation.field_verifications[1].correct_value # Undefined
     /\ IsStr(validation.field_verifications[1].field_path))
    => /\ outcome = "returned"
       /\ ReadPath(heap, corrected,
                   validation.field_verifications[1].field_path.s, 1)
             = validation.field_verifications[1].correct_value

-----------------------------------------------------------------------------
(* Properties of the auditor *)

AreaTotalPath   == "property_metrics.total_usable_area_sqm"
IncomeTotalPath == "financial.total_rental_income_annual_eur"

IssuesAt(path) ==
    {i \in DOMAIN auditResult.issues : auditResult.issues[i].field = path}

ChecksOf(type) ==
    {i \in DOMAIN auditResult.checks_performed :
        auditResult.checks_performed[i].type = type}

\* |sum - total| > max(floor, 2% of total), in hundredths
Exceeds(sum, total, floor) ==
    100 * Abs(sum - total) > Max(100 * floor, 2 * total)

\* what the claim asks of one breakdown and its stated total
SumRule(breakdown, total, floor, path, type) ==
    (IsObj(breakdown) /\ IsNum(total)) =>
        LET sum == BreakdownSum(breakdown)
        IN  IF Exceeds(sum, total.n, floor)
            THEN /\ Cardinality(IssuesAt(path)) = 1
                 /\ \A i \in IssuesAt(path) :
                        auditResult.issues[i].severity = "high"
            ELSE /\ IssuesAt(path) = {}
                 /\ \E i \in ChecksOf(type) :
                        auditResult.checks_performed[i].within_tolerance

\* C9: for the SINGLE shape a 'high' issue citing the total's path is emitted
\* exactly when |sum(breakdown) - total| exceeds max(10, 2% of total) for the
\* area total and max(1000, 2% of total) for the income total; within the
\* tolerance the check is recorded with within_tolerance true and no issue is
\* emitted.
C9_BreakdownSumRule ==
    (auditPhase = "done" /\ propertyType = "SINGLE") =>
        /\ SumRule(Field(Field(auditData, "property_metrics"), "breakdown_by_use"),
                   Field(Field(auditData, "property_metrics"),
                         "total_usable_area_sqm"),
                   10, AreaTotalPath, "area_breakdown_sum")
        /\ SumRule(Field(Field(auditData, "financial"), "breakdown_by_use"),
                   Field(Field(auditData, "financial"),
                         "total_rental_income_annual_eur"),
                   1000, IncomeTotalPath, "income_breakdown_sum")

\* the same rule for the records whose stated totals are not 0
X9_RuleForNonZeroTotals ==
    (/\ Field(Field(auditData, "property_metrics"), "total_usable_area_sqm")
           # Num(0)
     /\ Field(Field(auditData, "financial"), "total_rental_income_annual_eur")
           # Num(0))
    => C9_BreakdownSumRule

ScenarioA ==
    /\ propertyType = "SINGLE"
    /\ auditData =
         Mapping({"property_metrics", "financial", "project_details"},
            [property_metrics |->
                Mapping({"breakdown_by_use", "total_usable_area_sqm"},
                   [breakdown_by_use |->
                       Mapping({"office_sqm", "retail_sqm"},
                          [office_sqm |-> Num(100), retail_sqm |-> Num(50)]),
                    total_usable_area_sqm |-> Num(200)]),
             financial |-> Obj(EmptyFields),
             project_details |-> Obj(EmptyFields)])

\* C10: auditing the record of Scenario A (breakdown {office: 100, retail:
\* 50}, stated total 200) emits exactly one issue, of severity 'high', whose
\* difference is the absolute difference 50, and is_valid is false; and the
\* difference of every breakdown-sum issue is |sum - total|.
C10_IssueCarriesAbsoluteDifference ==
    auditPhase = "done" =>
        /\ ScenarioA =>
              /\ Len(auditResult.issues) = 1
              /\ auditResult.issues[1].severity = "high"
              /\ auditResult.issues[1].difference = 50
              /\ ~auditResult.is_valid
        /\ \A i \in IssuesAt(AreaTotalPath) \cup IssuesAt(IncomeTotalPath) :
              auditResult.issues[i].difference
                 = Abs(auditResult.issues[i].issue.sum
                         - auditResult.issues[i].issue.total)

\* what holds of Scenario A: one 'high' issue, is_valid false, the check's
\* difference 50 and the issue's difference -50
X10_ScenarioA ==
    (auditPhase = "done" /\ ScenarioA) =>
        /\ Len(auditResult.issues) = 1
        /\ auditResult.issues[1].severity = "high"
        /\ auditResult.issues[1].difference = -50
        /\ auditResult.checks_performed[1].difference = 50
        /\ ~auditResult.is_valid

BuiltYearPath == "project_details.original_year_built"

\* a year outside [1800, currentYear + 10]
OutsideBuiltRange(y) == y < 1800 \/ y > currentYear + 10

MediumIssuesAt(path) ==
    {i \in IssuesAt(path) : auditResult.issues[i].severity = "medium"}

\* the issues of severity sev the auditor emitted for field f of the entry at
\* index idx of a portfolio
EntryIssues(idx, f, sev) ==
    {i \in DOMAIN auditResult.issues :
        /\ auditResult.issues[i].property_index = idx
        /\ auditResult.issues[i].field = f
        /\ auditResult.issues[i].severity = sev}

\* the per-entry part: one 'medium' issue for each entry whose year_built is
\* out of range, none for an entry whose year is in range
PortfolioYearRule ==
    (auditPhase = "done" /\ propertyType = "PORTFOLIO") =>
        \A k \in DOMAIN auditData.items :
            LET y == Field(auditData.items[k], "year_built")
            IN  IsNum(y) =>
                  Cardinality(EntryIssues(k - 1, "year_built", "medium"))
                     = IF OutsideBuiltRange(y.n) THEN 1 ELSE 0

\* C11: a built year outside [1800, currentYear + 10] yields one 'medium'
\* issue: for the SINGLE shape whenever project_details.original_year_built
\* is out of range, whether or not a completion year is present, and for the
\* PORTFOLIO shape once per entry whose year_built is out of range.
C11_BuiltYearOutOfRange ==
    /\ (auditPhase = "done" /\ propertyType = "SINGLE") =>
          LET built == Field(Field(auditData, "project_details"),
                             "original_year_built")
          IN  IsNum(built) =>
                Cardinality(MediumIssuesAt(BuiltYearPath))
                   = IF OutsideBuiltRange(built.n) THEN 1 ELSE 0
    /\ PortfolioYearRule

\* the same rule for the SINGLE records that state a completion year
X11_RangeCheckedWithCompletionYear ==
    Truthy(Field(Field(auditData, "project_details"), "completion_year"))
        => C11_BuiltYearOutOfRange

ProjectDetailsOf(d) == Field(d, "project_details")

OccupancyPath == "usage_details.overall_occupancy_percent"

\* a percentage below 0 or above 100
OutsidePercentRange(p) == p < 0 \/ p > 100

HighIssuesAt(path) ==
    {i \in IssuesAt(path) : auditResult.issues[i].severity = "high"}

\* C13: an occupancy percentage below 0 or above 100 yields one 'high'
\* issue, for the SINGLE shape at usage_details.overall_occupancy_percent and
\* for the PORTFOLIO shape once per entry whose occupancy_rate_percent is out
\* of range; an occupancy inside [0, 100] yields none.
C13_OccupancyOutOfRange ==
    /\ (auditPhase = "done" /\ propertyType = "SINGLE") =>
          LET occupancy == Field(Field(auditData, "usage_details"),
                                 "overall_occupancy_percent")
          IN  IsNum(occupancy) =>
                /\ Cardinality(HighIssuesAt(OccupancyPath))
                      = IF OutsidePercentRange(occupancy.n) THEN 1 ELSE 0
                /\ IssuesAt(OccupancyPath) = HighIssuesAt(OccupancyPath)
    /\ (auditPhase = "done" /\ propertyType = "PORTFOLIO") =>
          \A k \in DOMAIN auditData.items :
              LET occupancy == Field(auditData.items[k],
                                     "occupancy_rate_percent")
              IN  IsNum(occupancy) =>
                    Cardinality(EntryIssues(k - 1, "occupancy_rate_percent",
                                            "high"))
                       = IF OutsidePercentRange(occupancy.n) THEN 1 ELSE 0

\* Scenario B has been audited: an occupancy of 105 in a record that is
\* otherwise sound; the result holds exactly one issue, of severity 'high'
C13_Witness ==
    /\ auditPhase = "done" /\ propertyType = "SINGLE"
    /\ Field(auditData, "usage_details")
          = Rec1("overall_occupancy_percent", Num(105))
    /\ Len(auditResult.issues) = 1
    /\ auditResult.issues[1].field = OccupancyPath
    /\ auditResult.issues[1].severity = "high"
    /\ ~auditResult.is_valid

\* the issues of one severity in the result
IssuesOfSeverity(sev) ==
    {i \in DOMAIN auditResult.issues : auditResult.issues[i].severity = sev}

\* C14: in every result of validateCalculations, is_valid is true exactly
\* when no emitted issue has severity 'high', summary.high_severity_issues
\* and summary.medium_severity_issues are the numbers of issues of those
\* severities, and a result whose issues are all 'medium' is valid.
C14_ValidityAndSummary ==
    auditPhase = "done" =>
        /\ auditResult.is_valid <=>
              ~(\E i \in DOMAIN auditResult.issues :
                    auditResult.issues[i].severity = "high")
        /\ auditResult.summary.high_severity_issues
              = Cardinality(IssuesOfSeverity("high"))
        /\ auditResult.summary.medium_severity_issues
              = Cardinality(IssuesOfSeverity("medium"))
        /\ auditResult.summary.high_severity_issues
              + auditResult.summary.medium_severity_issues
              = Len(auditResult.issues)
        /\ auditResult.summary.total_checks = Len(auditResult.checks_performed)

\* a result whose only issue is 'medium' and that is valid
C14_Witness ==
    /\ auditPhase = "done"
    /\ Len(auditResult.issues) = 1
    /\ auditResult.issues[1].severity = "medium"
    /\ auditResult.summary.medium_severity_issues = 1
    /\ auditResult.summary.high_severity_issues = 0
    /\ auditResult.is_valid

-----------------------------------------------------------------------------
(* Properties of the comparison report and its recommendation *)

\* the confidence_score of the validated result handed to compare()
ValidatedConfidence ==
    Field(Field(validatedInput, "validation"), "confidence_score")

RemovedFabrications ==
    {i \in DOMAIN comparison.differences :
        /\ "issue_type" \in DOMAIN comparison.differences[i]
        /\ comparison.differences[i].issue_type = "removed_fabrication"}

CriticalOnes ==
    {i \in DOMAIN comparison.differences :
        comparison.differences[i].severity = "critical"}

\* the decision table of the comparison-report variant, by the first words
\* of the recommendation
RecommendationTable(fabricated, critical, confidence, differences) ==
    IF fabricated > 5 \/ critical > 3 THEN "STRONGLY RECOMMENDED"
    ELSE IF fabricated > 2 \/ critical > 0 THEN "RECOMMENDED"
    ELSE IF IsNum(confidence) /\ confidence.n < 80 THEN "CAUTION"
    ELSE IF differences = 0 THEN "OPTIONAL"
    ELSE "CONSIDER"

\* the words of a recommendation before its colon
RECURSIVE Heading(_)
Heading(text) ==
    IF text = "" \/ SubSeq(text, 1, 1) = ":" THEN ""
    ELSE SubSeq(text, 1, 1) \o Heading(SubSeq(text, 2, Len(text)))

\* C15: the recommendation of a comparison report is the first matching rule
\* of: fabrications > 5 or critical differences > 3 gives STRONGLY
\* RECOMMENDED; fabrications > 2 or critical > 0 gives RECOMMENDED; validated
\* confidence < 80 gives CAUTION; zero differences gives OPTIONAL; otherwise
\* CONSIDER.
C15_ComparisonRecommendation ==
    reportPhase = "summarised" =>
        Heading(summary.recommendation)
            = RecommendationTable(Cardinality(RemovedFabrications),
                                  Cardinality(CriticalOnes),
                                  ValidatedConfidence,
                                  Len(comparison.differences))

\* the same table for validated results whose confidence is not 0
X15_TableForNonZeroConfidence ==
    ValidatedConfidence # Num(0) => C15_ComparisonRecommendation

-----------------------------------------------------------------------------
(* Properties of extractPropertyData and of the routes *)

StartsWith(text, prefix) ==
    Len(text) >= Len(prefix) /\ SubSeq(text, 1, Len(prefix)) = prefix

\* the counts the post-correction table reads off a validation result
ReportedFabricated ==
    LET f == Field(Field(verification, "verification_summary"), "fabricated")
    IN  IF IsNum(f) THEN f.n ELSE 0

ReportedCritical ==
    LET issues == Field(verification, "critical_issues")
    IN  IF issues.t = "array" THEN Len(issues.items) ELSE 0

HighCalculationIssues ==
    Cardinality({i \in DOMAIN result.validation.calculation_validation.issues :
        result.validation.calculation_validation.issues[i].severity = "high"})

\* the decision table of the post-correction variant
PostCorrectionTable(confidence, fabricated, critical, highCalc) ==
    IF confidence < 60 \/ fabricated > 5 \/ critical > 5
    THEN "LOW CONFIDENCE"
    ELSE IF confidence < 75 \/ fabricated > 2 \/ critical > 2 \/ highCalc > 2
    THEN "MEDIUM CONFIDENCE"
    ELSE IF confidence >= 90 /\ fabricated = 0 /\ critical = 0
    THEN "HIGH CONFIDENCE"
    ELSE "ACCEPTABLE CONFIDENCE"

WithReport ==
    /\ pipePhase = "responded"
    /\ response.route = "/extract-clean-with-report"
    /\ ~response.failed

Returned == enableValidation /\ pipePhase \in {"returned", "responded"}

SuppliedConfidence == Field(verification, "confidence_score")

\* correct / total_fields_checked * 100 of the verification summary
DerivedConfidence ==
    LET s == Field(verification, "verification_summary")
    IN  IF IsNum(Field(s, "correct")) /\ IsNum(Field(s, "total_fields_checked"))
           /\ Field(s, "total_fields_checked").n > 0
        THEN Num((Field(s, "correct").n * 100)
                    \div Field(s, "total_fields_checked").n)
        ELSE Null

\* C17: the confidence of a validated extraction is the confidence_score of
\* the verification report whenever the report supplies one, the value 0
\* included, and otherwise correct / total_fields_checked * 100 of the
\* verification summary.
C17_ReportedConfidence ==
    Returned =>
        result.validation.confidence_score =
            IF IsNum(SuppliedConfidence) THEN SuppliedConfidence
            ELSE DerivedConfidence

\* what the code does: a supplied score other than 0 is reported as it is;
\* a score of 0 or no score gives the overall_accuracy_percent the report
\* states, and null when it states none (or 0)
X17_FirstTruthyOfScoreAndAccuracy ==
    Returned =>
        LET accuracy ==
               Field(Field(verification, "verification_summary"),
                     "overall_accuracy_percent")
        IN  result.validation.confidence_score =
               IF IsNum(SuppliedConfidence) /\ SuppliedConfidence.n # 0
               THEN SuppliedConfidence
               ELSE IF IsNum(accuracy) /\ accuracy.n # 0 THEN accuracy
               ELSE Null

\* a report with summary counts 42 of 50, no score and no stated accuracy
\* leaves the confidence null
X17_CountsAreNotUsed ==
    /\ Returned
    /\ SuppliedConfidence = Undefined
    /\ DerivedConfidence = Num(84)
    /\ result.validation.confidence_score = Null

\* a supplied score of 0 has been replaced
X17_ZeroScoreReplaced ==
    /\ Returned
    /\ SuppliedConfidence = Num(0)
    /\ result.validation.confidence_score # Num(0)


\* the verification response could not be parsed and the function returned
UnparsedAndReturned == Returned /\ verification = UnparsedReport

\* the request failed: extractPropertyData threw or the route went to
\* next(error)
RequestFailed ==
    \/ pipePhase = "failed"
    \/ pipePhase = "responded" /\ response.failed

\* C18: when the verification response cannot be parsed as structured data
\* the pipeline does not throw, runs no correction pass, returns a record
\* (also after applyIntelligentCorrections) structurally equal to the
\* extracted one, and reports the confidence as unknown rather than as a
\* numeric score.
C18_UnparsedVerification ==
    verification = UnparsedReport =>
        /\ ~RequestFailed
        /\ Returned
        /\ apiCalls = <<"classification", "extraction", "verification">>
        /\ result.data = extracted
        /\ ~result.validation.corrections_applied
        /\ result.validation.confidence_score = Null
        /\ pipePhase = "responded" =>
              /\ (IF response.route = "/extract-clean"
                  THEN response.body ELSE response.body.data)
                    = extracted
              /\ response.route = "/extract-clean" =>
                    response.headers.confidence_score \notin {"0"}
              /\ response.route = "/extract-clean-with-report" =>
                    ~IsNum(response.body.report.confidence_score)

\* everything of the claim but the confidence the routes report
X18_FallsThroughWithoutCorrections ==
    verification = UnparsedReport =>
        /\ ~RequestFailed
        /\ Returned
        /\ apiCalls = <<"classification", "extraction", "verification">>
        /\ result.data = extracted
        /\ ~result.validation.corrections_applied
        /\ result.validation.confidence_score = Null
        /\ result.metadata.validation_passes = 3
        /\ pipePhase = "responded" =>
              (IF response.route = "/extract-clean"
               THEN response.body ELSE response.body.data)
                 = extracted

\* both routes report the unknown confidence as the number 0, and the report
\* recommends as for a confidence below 60
X18_RoutesReportZero ==
    verification = UnparsedReport /\ pipePhase = "responded" =>
        IF response.route = "/extract-clean"
        THEN response.headers.confidence_score = "0"
        ELSE /\ response.body.report.confidence_score = Num(0)
             /\ StartsWith(response.body.report.recommendation,
                           "LOW CONFIDENCE")

X18_UnparsedAnswered ==
    verification = UnparsedReport /\ pipePhase = "responded"


-----------------------------------------------------------------------------
(* Totality of the applicator and the auditor *)

\* a string stands somewhere in the record where a mapping or a number is
\* expected
RECURSIVE HoldsText(_)
HoldsText(tree) ==
    \/ IsStr(tree)
    \/ IsObj(tree) /\ \E k \in DOMAIN tree.o : HoldsText(tree.o[k])

\* the input is incomplete and nothing else: sections of the record are
\* absent, null or mappings, and no finding puts a number where a section is
\* expected
IncompleteInput ==
    /\ ~HoldsText(dataSnapshot)
    /\ \A i \in DOMAIN validation.field_verifications :
          LET v == validation.field_verifications[i]
          IN  ~(v.field_path = Str(<<"property_metrics">>)
                   /\ IsNum(v.correct_value))

\* the finding makes applyIntelligentCorrections call applyFieldCorrection
IsApplied(v) ==
    \/ v.status = "FABRICATED"
    \/ v.status \in {"INCORRECT", "MISSING"} /\ v.correct_value # Undefined

\* C19: applyIntelligentCorrections is total over incomplete input: for
\* every record with any sections absent and every report with any fields
\* absent (a finding without field_path or correct_value, no
\* field_verifications, no critical_issues, a critical-issue entry that is
\* not a string) the call returns and does not throw.
C19_TotalOverIncompleteInput ==
    (phase = "applied" /\ IncompleteInput) => outcome = "returned"

\* on incomplete input the call throws exactly when a finding that is
\* applied has no field_path or a critical-issue entry is not a string
X19_ThrowsOnMissingPathOrNonStringNote ==
    (phase = "applied" /\ IncompleteInput) =>
        (outcome = "threw" <=>
            \/ \E i \in DOMAIN validation.field_verifications :
                  /\ IsApplied(validation.field_verifications[i])
                  /\ ~IsStr(validation.field_verifications[i].field_path)
            \/ \E i \in DOMAIN validation.critical_issues :
                  ~IsStr(validation.critical_issues[i]))

\* a FABRICATED finding without field_path alone makes the call throw
X19_FindingWithoutPathThrows ==
    /\ phase = "applied" /\ IncompleteInput
    /\ SingleFinding
    /\ validation.field_verifications[1].status = "FABRICATED"
    /\ validation.field_verifications[1].field_path = Undefined
    /\ outcome = "threw"

\* a critical-issue entry that is a mapping alone makes the call throw
X19_NonStringNoteThrows ==
    /\ phase = "applied" /\ IncompleteInput
    /\ validation.field_verifications = <<>>
    /\ Len(validation.critical_issues) = 1
    /\ ~IsStr(validation.critical_issues[1])
    /\ outcome = "threw"

\* a report without field_verifications and critical_issues, and findings
\* without correct_value or (when not applied) without field_path, are
\* passed over
X19_AbsentPartsPassedOver ==
    (/\ phase = "applied" /\ IncompleteInput
     /\ \A i \in DOMAIN validation.field_verifications :
           ~IsApplied(validation.field_verifications[i])
     /\ validation.critical_issues = <<>>)
    => /\ outcome = "returned"
       /\ Structure(heap, corrected) = dataSnapshot


\* validateCalculations returns its result object for every record of the
\* model, with no section, some sections or null sections, in both shapes
X19_AuditorReturns ==
    auditPhase = "done" =>
        /\ auditResult.is_valid \in BOOLEAN
        /\ auditResult.summary.total_checks = Len(auditResult.checks_performed)


-----------------------------------------------------------------------------
(* Properties of the breakdown comparison *)

RetailArea == "retail_sqm"
RetailAreaPath == "property_metrics.breakdown_by_use.retail_sqm"

ComparedStandard == standardInput
ComparedValidated == OrElse(Field(validatedInput, "data"), validatedInput)

StandardAreas ==
    Field(Field(ComparedStandard, "property_metrics"), "breakdown_by_use")
ValidatedAreas ==
    Field(Field(ComparedValidated, "property_metrics"), "breakdown_by_use")

\* compare has run on a SINGLE pair whose both sides hold an area breakdown
AreasCompared ==
    /\ reportPhase # "ready" /\ reportType = "SINGLE"
    /\ IsObj(StandardAreas) /\ IsObj(ValidatedAreas)

DifferencesAt(path) ==
    {i \in DOMAIN comparison.differences :
        comparison.differences[i].field = path}

OneDifference(path, type) ==
    /\ Cardinality(DifferencesAt(path)) = 1
    /\ \A i \in DifferencesAt(path) :
          comparison.differences[i].issue_type = type

\* C20: every key of the union of the two breakdown maps is compared, a key
\* present on one side only as if the other side held null: a value only on
\* the standard side is a removed_fabrication (critical), a value only on
\* the validated side an added_missing_data, and a key whose only value is
\* null is identical.
C20_OneSidedKeyAsNull ==
    AreasCompared =>
        LET sv == Field(StandardAreas, RetailArea)
            vv == Field(ValidatedAreas, RetailArea)
        IN  /\ (IsNum(sv) /\ vv = Undefined) =>
                  /\ OneDifference(RetailAreaPath, "removed_fabrication")
                  /\ \A i \in DifferencesAt(RetailAreaPath) :
                        comparison.differences[i].severity = "critical"
            /\ (sv = Undefined /\ IsNum(vv)) =>
                  OneDifference(RetailAreaPath, "added_missing_data")
            /\ (sv \in {Undefined, Null} /\ vv \in {Undefined, Null}) =>
                  DifferencesAt(RetailAreaPath) = {}
            /\ (IsNum(sv) /\ IsNum(vv) /\ sv # vv) =>
                  OneDifference(RetailAreaPath, "numeric_discrepancy")

\* every key of the union is compared: a key held by either side is without
\* a Difference exactly when both sides hold null or the same number
X20_UnionIsCompared ==
    AreasCompared =>
        LET sv == Field(StandardAreas, RetailArea)
            vv == Field(ValidatedAreas, RetailArea)
        IN  (sv # Undefined \/ vv # Undefined) =>
               (DifferencesAt(RetailAreaPath) = {} <=>
                   \/ sv = Null /\ vv = Null
                   \/ IsNum(sv) /\ sv = vv)

\* what a one-sided key gives: the missing side is undefined, not null.  A
\* number against undefined is a type_mismatch of severity medium; null on
\* the standard side only is an added_missing_data; null on the validated
\* side only is a removed_fabrication of severity critical.
X20_MissingSideIsUndefined ==
    AreasCompared =>
        LET sv == Field(StandardAreas, RetailArea)
            vv == Field(ValidatedAreas, RetailArea)
            Found == {comparison.differences[i].severity :
                              i \in DifferencesAt(RetailAreaPath)}
        IN  /\ ((IsNum(sv) /\ vv = Undefined) \/ (sv = Undefined /\ IsNum(vv)))
                  => /\ OneDifference(RetailAreaPath, "type_mismatch")
                     /\ Found = {"medium"}
            /\ (sv = Null /\ vv = Undefined) =>
                  /\ OneDifference(RetailAreaPath, "added_missing_data")
                  /\ Found = {"medium"}
            /\ (sv = Undefined /\ vv = Null) =>
                  /\ OneDifference(RetailAreaPath, "removed_fabrication")
                  /\ Found = {"critical"}

\* a key with a number on the standard side only has been compared
X20_StandardOnlyCompared ==
    /\ AreasCompared
    /\ Field(StandardAreas, RetailArea) = Num(400)
    /\ Field(ValidatedAreas, RetailArea) = Undefined
    /\ OneDifference(RetailAreaPath, "type_mismatch")

\* with null in place of the missing side the claim's three cases hold
X20_HoldsForExplicitNull ==
    AreasCompared =>
        LET sv == Field(StandardAreas, RetailArea)
            vv == Field(ValidatedAreas, RetailArea)
        IN  /\ (IsNum(sv) /\ vv = Null) =>
                  /\ OneDifference(RetailAreaPath, "removed_fabrication")
                  /\ \A i \in DifferencesAt(RetailAreaPath) :
                        comparison.differences[i].severity = "critical"
            /\ (sv = Null /\ IsNum(vv)) =>
                  OneDifference(RetailAreaPath, "added_missing_data")
            /\ (sv = Null /\ vv = Null) => DifferencesAt(RetailAreaPath) = {}


-----------------------------------------------------------------------------
(* Canonical equality and the default severity of the field comparisons *)

SameSerialization(c) ==
    JSONStringify(c.standard_value) = JSONStringify(c.validated_value)

\* C21: canonical equality comes first in every field comparison: when the
\* two values have the same canonical serialization (a field absent on both
\* sides included) no Difference is emitted and the comparison is counted as
\* identical, for numeric fields as well as for plain ones.
C21_CanonicalEqualityFirst ==
    \A i \in DOMAIN calls :
        SameSerialization(calls[i])
        => /\ calls[i].pushed = <<>>
           /\ calls[i].identical = 1
           /\ calls[i].different = 0

\* plain comparisons do test the serializations first
X21_PlainFieldsTestSerialization ==
    \A i \in DOMAIN calls :
        (~NumericCall(calls[i]) /\ SameSerialization(calls[i]))
        => /\ calls[i].pushed = <<>>
           /\ calls[i].identical = 1

\* numeric comparisons have no such test: equal values that are neither null
\* nor coercible to a number (absent on both sides, the same text on both
\* sides) are reported as a type_mismatch, all others as identical
X21_NumericEqualUncoercibleMismatch ==
    \A i \in DOMAIN calls :
        (NumericCall(calls[i]) /\ SameSerialization(calls[i]))
        => IF calls[i].standard_value = Null
              \/ Coercible(calls[i].standard_value)
           THEN calls[i].pushed = <<>> /\ calls[i].identical = 1
           ELSE /\ Len(calls[i].pushed) = 1
                /\ calls[i].pushed[1].issue_type = "type_mismatch"
                /\ calls[i].identical = 0 /\ calls[i].different = 1

\* a numeric field absent on both sides has been compared
X21_AbsentOnBothSidesCompared ==
    \E i \in DOMAIN calls :
        /\ NumericCall(calls[i])
        /\ calls[i].standard_value = Undefined
        /\ calls[i].validated_value = Undefined
        /\ Len(calls[i].pushed) = 1


\* the Differences of a call the default severity applies to
DefaultSeverities(c) ==
    {c.pushed[k].severity : k \in
        {k \in DOMAIN c.pushed :
            c.pushed[k].issue_type \notin {"removed_fabrication",
                                           "type_mismatch"}}}

\* C22: without a severity option the defaults are tolerance 0 and severity
\* 'low': every Difference of the comparison that is neither a
\* removed_fabrication nor a type_mismatch has severity 'low', for numeric
\* comparisons as well as for plain ones.
C22_DefaultSeverityLow ==
    options.severity = Absent =>
        \A i \in DOMAIN calls : DefaultSeverities(calls[i]) \subseteq {"low"}

\* the defaults of the code: 'low' for a plain comparison, 'medium' for a
\* numeric one, and tolerance 0 (two different numbers are a Difference)
X22_NumericDefaultIsMedium ==
    options.severity = Absent =>
        \A i \in DOMAIN calls :
            /\ DefaultSeverities(calls[i]) \subseteq
                  (IF NumericCall(calls[i]) THEN {"medium"} ELSE {"low"})
            /\ (/\ options.tolerance = Undefined
                /\ NumericCall(calls[i])
                /\ IsNum(calls[i].standard_value)
                /\ IsNum(calls[i].validated_value)
                /\ calls[i].standard_value # calls[i].validated_value)
               => Len(calls[i].pushed) = 1

\* a numeric comparison without options has pushed a numeric_discrepancy of
\* severity medium
X22_NumericDiscrepancyMedium ==
    /\ options = [tolerance |-> Undefined, severity |-> Absent]
    /\ \E i \in DOMAIN calls :
          /\ NumericCall(calls[i])
          /\ Len(calls[i].pushed) = 1
          /\ calls[i].pushed[1].issue_type = "numeric_discrepancy"
          /\ calls[i].pushed[1].severity = "medium"


-----------------------------------------------------------------------------
(* Structural problems in the comparison of whole records *)

Sections ==
    {"property_identity", "property_metrics", "financial", "project_details",
     "unit_counts"}

\* the section is held by one side only
OneSided(section) ==
    Truthy(Field(ComparedStandard, section))
        # Truthy(Field(ComparedValidated, section))

CriticalAt(path) ==
    \E i \in DifferencesAt(path) : comparison.differences[i].severity = "critical"

ItemsOf(v) == IF v.t = "array" THEN v.items ELSE <<>>

\* the indices (from 0) of the entries one side holds and the other does not
OneSidedEntries ==
    {i \in 0..(Max(Len(ItemsOf(ComparedStandard)),
                   Len(ItemsOf(ComparedValidated))) - 1) :
        i + 1 > Len(ItemsOf(ComparedStandard))
            \/ i + 1 > Len(ItemsOf(ComparedValidated))}

PortfolioStructure ==
    /\ (ComparedStandard.t # "array" \/ ComparedValidated.t # "array")
          => /\ CriticalAt("portfolio_structure")
             /\ comparison.statistics.fields_compared = 0
    /\ (ComparedStandard.t = "array" /\ ComparedValidated.t = "array") =>
          /\ Len(ComparedStandard.items) # Len(ComparedValidated.items)
                => CriticalAt("portfolio_length")
          /\ \A i \in OneSidedEntries :
                /\ CriticalAt("portfolio[" \o ToString(i) \o "]")
                /\ \A f \in {"name_id", "city", "rental_income_annual_eur",
                             "usable_area_sqm"} :
                      DifferencesAt("portfolio[" \o ToString(i) \o "]." \o f)
                         = {}
          /\ comparison.statistics.fields_compared =
                4 * (Len(ComparedStandard.items) + Len(ComparedValidated.items)
                       - Max(Len(ComparedStandard.items),
                             Len(ComparedValidated.items)))

\* C23: whole-record comparison reports every structural problem as a
\* 'critical' Difference of its own: a section (identity, metrics,
\* financials, project details, unit counts) held by one side only, a
\* collection that is not an array or differs in length, and a collection
\* entry held by one side only; for a one-sided entry no field is compared.
C23_StructuralProblemsCritical ==
    reportPhase # "ready" =>
        IF reportType = "SINGLE"
        THEN \A s \in Sections : OneSided(s) => CriticalAt(s)
        ELSE PortfolioStructure

\* the collection part of the claim holds
X23_PortfolioStructureCritical ==
    (reportPhase # "ready" /\ reportType = "PORTFOLIO") => PortfolioStructure

\* a one-sided identity section is reported with severity 'high'; a
\* one-sided metrics, financial, project_details or unit_counts section is
\* not reported at all
X23_OneSidedSections ==
    (reportPhase # "ready" /\ reportType = "SINGLE") =>
        \A s \in Sections :
            OneSided(s) =>
                IF s = "property_identity"
                THEN /\ Cardinality(DifferencesAt(s)) = 1
                     /\ \A i \in DifferencesAt(s) :
                           comparison.differences[i].severity = "high"
                ELSE \A i \in DOMAIN comparison.differences :
                        ~StartsWith(comparison.differences[i].field, s)

\* a record whose financial section only the standard side holds has been
\* compared without any Difference
X23_MissingFinancialUnreported ==
    /\ reportPhase # "ready" /\ reportType = "SINGLE"
    /\ OneSided("financial")
    /\ comparison.differences = <<>>


-----------------------------------------------------------------------------
(* The critical-issue notes and the caller's report *)

\* some note holds both markers
Noted(first, second) ==
    \E i \in DOMAIN validation.critical_issues :
        /\ IsStr(validation.critical_issues[i])
        /\ Includes(validation.critical_issues[i].s, first)
        /\ Includes(validation.critical_issues[i].s, second)

CorrectedMetrics == GetProp(heap, corrected, "property_metrics")
CorrectedAreas == GetProp(heap, CorrectedMetrics, "breakdown_by_use")

\* the tree with null at land_area_sqm / parking_sqm where the notes ask
\* for it and the section / the breakdown map is there
WithNotedFieldsNull(tree) ==
    LET pm == Field(tree, "property_metrics")
        pm1 == IF IsObj(pm) /\ Noted(LandAreaMarker, NotStatedMarker)
               THEN Obj([k \in DOMAIN pm.o \cup {"land_area_sqm"} |->
                           IF k = "land_area_sqm" THEN Null ELSE pm.o[k]])
               ELSE pm
        bbu == Field(pm1, "breakdown_by_use")
        bbu1 == IF IsObj(bbu) /\ Noted(ParkingAreaMarker, FabricatedMarker)
                THEN Obj([k \in DOMAIN bbu.o \cup {"parking_sqm"} |->
                            IF k = "parking_sqm" THEN Null ELSE bbu.o[k]])
                ELSE bbu
    IN  IF IsObj(pm1)
        THEN Obj([k \in DOMAIN tree.o |->
                    IF k = "property_metrics"
                    THEN Obj([j \in DOMAIN pm1.o |->
                                IF j = "breakdown_by_use" THEN bbu1
                                ELSE pm1.o[j]])
                    ELSE tree.o[k]])
        ELSE tree

\* the record the findings alone give
FindingsOnly ==
    applyIntelligentCorrections(heap, data,
                                [validation EXCEPT !.critical_issues = <<>>])

\* no finding carries a mapping as its correct_value
PlainValues ==
    \A i \in DOMAIN validation.field_verifications :
        ~IsObj(validation.field_verifications[i].correct_value)

\* C24: the notes are applied after the findings and whatever they did: in
\* the record a call returns, a note with 'Land area' and 'not stated' and a
\* property_metrics section give land_area_sqm = null, a note with 'Parking
\* area in sqm' and 'fabricated' and a breakdown map give parking_sqm = null,
\* also when a finding set a value at that path; the notes change no other
\* field.
C24_NotesOverrideFindings ==
    (phase = "applied" /\ outcome = "returned") =>
        /\ (Noted(LandAreaMarker, NotStatedMarker) /\ IsObj(CorrectedMetrics))
              => GetProp(heap, CorrectedMetrics, "land_area_sqm") = Null
        /\ (Noted(ParkingAreaMarker, FabricatedMarker) /\ IsObj(CorrectedAreas))
              => GetProp(heap, CorrectedAreas, "parking_sqm") = Null
        /\ PlainValues =>
              /\ ~FindingsOnly.threw
              /\ Structure(heap, corrected) =
                    WithNotedFieldsNull(Structure(FindingsOnly.h, FindingsOnly.v))

\* a finding set land_area_sqm to 5000 and the note made it null again
C24_Witness ==
    /\ phase = "applied" /\ outcome = "returned"
    /\ Noted(LandAreaMarker, NotStatedMarker)
    /\ \E i \in DOMAIN validation.field_verifications :
          /\ validation.field_verifications[i].status = "INCORRECT"
          /\ validation.field_verifications[i].field_path
                = Str(<<"property_metrics", "land_area_sqm">>)
          /\ validation.field_verifications[i].correct_value = Num(5000)
    /\ IsObj(CorrectedMetrics)
    /\ GetProp(heap, CorrectedMetrics, "land_area_sqm") = Null
    /\ ReadPath(heap, data, <<"property_metrics", "land_area_sqm">>, 1)
          = Num(42277)


-----------------------------------------------------------------------------
(* The passes of extractPropertyData *)

PassOrder == <<"classification", "extraction", "verification", "correction">>

\* the verification report has incorrect > 0, fabricated > 0 or a
\* non-empty list of critical issues
ErrorsReported ==
    LET s == Field(verification, "verification_summary")
        issues == Field(verification, "critical_issues")
    IN  \/ IsNum(Field(s, "incorrect")) /\ Field(s, "incorrect").n > 0
        \/ IsNum(Field(s, "fabricated")) /\ Field(s, "fabricated").n > 0
        \/ issues.t = "array" /\ issues.items # <<>>

CorrectionCalled == \E i \in DOMAIN apiCalls : apiCalls[i] = "correction"

\* C25: the passes run in the order classification, extraction,
\* verification, optional correction, calculation validation; the correction
\* pass runs exactly when the verification report has incorrect > 0,
\* fabricated > 0 or a non-empty critical-issue list; validation_passes and
\* apiCallsCount (4 with correction, 3 without) are the number of model
\* calls made; with validation disabled two model calls are made and
\* validation is null.
C25_PassOrderAndCount ==
    /\ apiCalls = SubSeq(PassOrder, 1, Len(apiCalls))
    /\ pipePhase = "correcting" => ErrorsReported
    /\ Returned =>
          /\ CorrectionCalled <=> ErrorsReported
          /\ Len(apiCalls) = IF CorrectionCalled THEN 4 ELSE 3
          /\ result.metadata.validation_passes = Len(apiCalls)
          /\ result.metadata.apiCallsCount = Len(apiCalls)
          /\ result.validation.calculation_validation =
                validateCalculations(result.data, classification,
                                     CHOOSE y \in CurrentYears : TRUE)
    /\ (~enableValidation /\ pipePhase = "returned") =>
          /\ apiCalls = <<"classification", "extraction">>
          /\ result.validation = Null
          /\ result.data = extracted

\* a report whose only error is a critical-issue note has led to a
\* correction pass and a result counting four passes
C25_Witness ==
    /\ Returned
    /\ ErrorsReported
    /\ Field(Field(verification, "verification_summary"), "incorrect") = Num(0)
    /\ Field(Field(verification, "verification_summary"), "fabricated") = Num(0)
    /\ apiCalls = PassOrder
    /\ result.metadata.validation_passes = 4

\* a run with validation disabled has returned after two model calls
X25_DisabledReturnsAfterTwoCalls ==
    /\ ~enableValidation /\ pipePhase = "returned"
    /\ Len(apiCalls) = 2


\* validateCalculations of the record the route sends
AuditOfReturnedRecord ==
    validateCalculations(response.body.data, classification,
                         CHOOSE y \in CurrentYears : TRUE)

\* C26: the Calculation Auditor runs on the corrected record: the
\* calculation issues reported with the returned record
\* (report.calculation_issues and the recommendation's count of high
\* calculation issues) are those of the record the Correction Applicator
\* made, so they agree with auditing the returned record.
C26_AuditOfCorrectedRecord ==
    WithReport =>
        /\ response.body.report.calculation_issues = AuditOfReturnedRecord.issues
        /\ HighCalculationIssues =
              CountSeverity(AuditOfReturnedRecord.issues, "high")

\* the issues reported are those of the record extractPropertyData returned,
\* audited before applyIntelligentCorrections ran
X26_AuditOfUncleanedRecord ==
    WithReport =>
        response.body.report.calculation_issues =
            validateCalculations(result.data, classification,
                                 CHOOSE y \in CurrentYears : TRUE).issues

\* the applicator has corrected the area total to the sum of the breakdown
\* and the report still lists the area mismatch of the uncorrected record
X26_StaleAreaIssue ==
    /\ WithReport
    /\ Field(Field(response.body.data, "property_metrics"),
             "total_usable_area_sqm") = Num(150)
    /\ \E i \in DOMAIN response.body.report.calculation_issues :
          response.body.report.calculation_issues[i].field
             = "property_metrics.total_usable_area_sqm"
    /\ \A i \in DOMAIN AuditOfReturnedRecord.issues :
          AuditOfReturnedRecord.issues[i].field
             # "property_metrics.total_usable_area_sqm"


\* C27: corrections_applied (and the X-Corrections-Applied header) is true
\* only if corrections were made: when it is true the record
\* extractPropertyData returned is the output of the correction pass, and
\* when the correction response carries no tool output, so that the original
\* extraction is returned, it is false.
C27_CorrectionsAppliedOnlyIfMade ==
    Returned =>
        /\ result.validation.corrections_applied =>
              /\ CorrectionCalled
              /\ IsObj(correctionToolUse)
              /\ result.data = Field(correctionToolUse, "input")
        /\ (CorrectionCalled /\ correctionToolUse = Undefined) =>
              ~result.validation.corrections_applied
        /\ (pipePhase = "responded" /\ response.route = "/extract-clean"
               /\ ~response.failed) =>
              (response.headers.corrections_applied = "true"
                  => IsObj(correctionToolUse))

\* corrections_applied and the header say whether a correction pass was
\* attempted, whatever it returned
X27_CorrectionsAppliedIsHasErrors ==
    Returned =>
        /\ result.validation.corrections_applied = CorrectionCalled
        /\ (pipePhase = "responded" /\ response.route = "/extract-clean"
               /\ ~response.failed) =>
              (response.headers.corrections_applied = "true"
                  <=> CorrectionCalled)

\* the correction response held no tool output, the original extraction was
\* returned and the header says corrections were applied
X27_AppliedWithoutCorrection ==
    /\ pipePhase = "responded" /\ response.route = "/extract-clean"
    /\ ~response.failed
    /\ CorrectionCalled /\ correctionToolUse = Undefined
    /\ result.data = extracted
    /\ response.headers.corrections_applied = "true"


\* the findings of the report whose correct_value is a mapping
MappingFindings ==
    {i \in DOMAIN validation.field_verifications :
        IsObj(validation.field_verifications[i].correct_value)}

\* the corrected record holds, at a path findings write to, the very object
\* a finding of the report holds
SharesNodeWithReport ==
    \E i \in MappingFindings, p \in FieldPaths :
        ReadPath(heap, corrected, p.s, 1)
            = validation.field_verifications[i].correct_value

\* C28: applyIntelligentCorrections does not mutate the report: for every
\* list of findings, a mapping correct_value followed by a finding inside
\* that mapping included, every correct_value is structurally equal before
\* and after the call, and the corrected record shares no mutable node with
\* the report.
C28_ReportNotMutated ==
    phase # "ready" =>
        /\ \A i \in MappingFindings :
              Structure(heap, validation.field_verifications[i].correct_value)
                 = ProposedMetrics
        /\ outcome = "returned" => ~SharesNodeWithReport

\* the report is changed only through a mapping the call stored in the
\* record: without a finding that is applied with a mapping value the
\* report keeps its structure and shares nothing
X28_MutatedOnlyThroughStoredMapping ==
    (/\ phase # "ready"
     /\ \A i \in MappingFindings :
           ~IsApplied(validation.field_verifications[i]))
    => /\ \A i \in MappingFindings :
             Structure(heap, validation.field_verifications[i].correct_value)
                = ProposedMetrics
       /\ outcome = "returned" => ~SharesNodeWithReport

\* the mapping {land_area_sqm: 900} of the report has been stored at
\* property_metrics and a later FABRICATED finding has made its
\* land_area_sqm null in the report itself
X28_ReportValueNulled ==
    /\ phase = "applied" /\ outcome = "returned"
    /\ Len(validation.field_verifications) = 2
    /\ validation.field_verifications[1].status = "INCORRECT"
    /\ validation.field_verifications[1].field_path = Str(<<"property_metrics">>)
    /\ IsObj(validation.field_verifications[1].correct_value)
    /\ validation.field_verifications[2].status = "FABRICATED"
    /\ Structure(heap, validation.field_verifications[1].correct_value)
          = Rec1("land_area_sqm", Null)
    /\ SharesNodeWithReport


-----------------------------------------------------------------------------
(* Fabrications among the critical differences *)

\* C29: in every report of compare() each removed_fabrication Difference has
\* severity 'critical', so there are never more fabrications than critical
\* differences; the recommendation is then determined by the critical count,
\* the confidence and the number of differences alone, and a report with a
\* fabrication is recommended at RECOMMENDED or STRONGLY RECOMMENDED.
C29_FabricationsAreCritical ==
    reportPhase # "ready" =>
        /\ RemovedFabrications \subseteq CriticalOnes
        /\ Cardinality(RemovedFabrications) <= Cardinality(CriticalOnes)
        /\ reportPhase = "summarised" =>
              /\ Heading(summary.recommendation)
                    = RecommendationTable(0, Cardinality(CriticalOnes),
                         comparison.confidence_metrics.validated_confidence,
                         Len(comparison.differences))
              /\ RemovedFabrications # {} =>
                    Heading(summary.recommendation)
                       \in {"RECOMMENDED", "STRONGLY RECOMMENDED"}

\* a report with one fabrication, which the fabrication rules alone would
\* pass over, has been recommended at RECOMMENDED
C29_Witness ==
    /\ reportPhase = "summarised"
    /\ Cardinality(RemovedFabrications) = 1
    /\ Cardinality(CriticalOnes) = 1
    /\ Heading(summary.recommendation) = "RECOMMENDED"


-----------------------------------------------------------------------------
(* Properties of CustomLokiTransport *)

\* the entries of the payloads, in the order the requests were made
RECURSIVE Pushed(_)
Pushed(i) ==
    IF i = 0 THEN <<>> ELSE Pushed(i - 1) \o requests[i].values

\* C30: under every interleaving of log() calls, timer flushes, close() and
\* push outcomes, each logged entry is in at most one payload and the
\* payloads keep the log order; flush() empties the batch before the request
\* is sent, so that after a log() call the batch holds fewer than batchSize
\* entries; the entries of a failed push are not queued again.
C30_EachEntryPushedOnce ==
    LET all == Pushed(Len(requests)) \o batch
    IN  /\ \A i, j \in DOMAIN all : i < j => all[i] < all[j]
        /\ all = [i \in 1..logged |-> i]
        /\ \A i \in DOMAIN requests : requests[i].values # <<>>
        /\ Len(batch) < batchSize
        /\ \A i \in DOMAIN requests :
              requests[i].state = "failed" =>
                 \A k \in DOMAIN batch :
                    \A j \in DOMAIN requests[i].values :
                       batch[k] # requests[i].values[j]

\* a push has failed, close() has stopped the timer, later entries were
\* logged and pushed, and one entry is waiting
C30_Witness ==
    /\ ~flushTimer
    /\ Len(requests) >= 3
    /\ requests[1].state = "failed"
    /\ requests[2].state = "sent"
    /\ Len(requests[3].values) = batchSize /\ batchSize = 2
    /\ Len(batch) = 1

=============================================================================
